---- MODULE Spec2Model ----
(***************************************************************************)
(* A model of the in-memory text editor of snyfter3 (src/src/editor.rs,    *)
(* src/src/block_selection.rs) and of the way src/src/main.rs drives it.   *)
(*                                                                         *)
(* A document is a sequence of characters.  Characters are one-letter      *)
(* strings; each stands for a class of Unicode scalar values:              *)
(*   "a" "b"  ASCII letters          (1 byte,  width 1, word)              *)
(*   " "      space                  (1 byte,  width 1, whitespace)        *)
(*   "\n"     line feed              (1 byte,  line ending)                *)
(*   "\t"     tab                    (1 byte,  tab stop)                   *)
(*   "E"      a letter such as e-acute  (2 bytes, width 1, word)           *)
(*   "W"      a CJK ideograph        (3 bytes, width 2, word)              *)
(*   "Z"      a combining mark       (2 bytes, width 0, extends grapheme)  *)
(* Offsets into a Rope are character offsets, offsets into a Rust String   *)
(* are byte offsets; the model keeps the two apart.                        *)
(***************************************************************************)
EXTENDS Integers, Sequences, FiniteSets, TLC

\* Option::None of the Option<usize> fields
None == -1

NL == "\n"
TAB == "\t"
SP == " "

TAB_WIDTH == 4
VIEWPORT_HEIGHT == 20
VIEWPORT_WIDTH == 80
PADDING == 2
PAGE_LINES == 20

Min(a, b) == IF a < b THEN a ELSE b
Max(a, b) == IF a > b THEN a ELSE b
\* usize::saturating_sub
SatSub(a, b) == IF a > b THEN a - b ELSE 0

-----------------------------------------------------------------------------
(* Characters *)

\* char::len_utf8
Utf8Len(ch) == IF ch = "W" THEN 3 ELSE IF ch \in {"E", "Z"} THEN 2 ELSE 1

\* unicode_width::UnicodeWidthChar::width(ch).unwrap_or(1)
UnicodeWidth(ch) == IF ch = "W" THEN 2 ELSE IF ch = "Z" THEN 0 ELSE 1

\* a character that continues the grapheme cluster of the one before it
IsExtend(ch) == ch = "Z"

\* helix_core::chars::categorize_char
categorize_char(ch) ==
    IF ch = NL THEN "Eol"
    ELSE IF ch \in {SP, TAB} THEN "Whitespace"
    ELSE IF ch \in {"a", "b", "E", "W"} THEN "Word"
    ELSE IF ch = "-" THEN "Punctuation"
    ELSE "Unknown"

char_is_line_ending(ch) == ch = NL

\* char::is_whitespace
is_whitespace(ch) == ch \in {SP, TAB, NL}

-----------------------------------------------------------------------------
(* Rust String: a sequence of characters addressed by byte offsets *)

RECURSIVE ByteOff(_, _)
\* the byte offset of character index k of s
ByteOff(s, k) == IF k = 0 THEN 0 ELSE ByteOff(s, k - 1) + Utf8Len(s[k])

ByteLen(s) == ByteOff(s, Len(s))

\* str::is_char_boundary
IsCharBoundary(s, b) == \E k \in 0..Len(s) : ByteOff(s, k) = b

\* the character index of a byte offset that is a character boundary
ByteToChar(s, b) == CHOOSE k \in 0..Len(s) : ByteOff(s, k) = b

\* String::insert / insert_str do not panic
StrInsertOk(s, b) == IsCharBoundary(s, b)

\* String::insert_str(b, t) (b a character boundary)
StrInsert(s, b, t) ==
    LET k == ByteToChar(s, b) IN SubSeq(s, 1, k) \o t \o SubSeq(s, k + 1, Len(s))

\* String::drain(b1..b2) does not panic
StrDrainOk(s, b1, b2) == b1 <= b2 /\ IsCharBoundary(s, b1) /\ IsCharBoundary(s, b2)

\* the string left by String::drain(b1..b2)
StrDrain(s, b1, b2) ==
    LET k1 == ByteToChar(s, b1)
        k2 == ByteToChar(s, b2)
    IN  SubSeq(s, 1, k1) \o SubSeq(s, k2 + 1, Len(s))

RECURSIVE Spaces(_)
Spaces(n) == IF n <= 0 THEN <<>> ELSE <<SP>> \o Spaces(n - 1)

-----------------------------------------------------------------------------
(* Rope (ropey, line feed is the only line break) *)

\* Rope::len_chars
len_chars(r) == Len(r)

\* Rope::len_lines
len_lines(r) == Cardinality({i \in 1..Len(r) : r[i] = NL}) + 1

\* Rope::char_to_line(pos), defined for pos <= len_chars
char_to_line(r, pos) == Cardinality({i \in 1..pos : r[i] = NL})

\* Rope::line_to_char(line), defined for line <= len_lines
line_to_char(r, line) ==
    IF line = 0 THEN 0
    ELSE IF line >= len_lines(r) THEN Len(r)
    ELSE CHOOSE p \in 1..Len(r) : r[p] = NL /\ char_to_line(r, p) = line

\* Rope::line(line), defined for line < len_lines; keeps the line feed
rope_line(r, line) ==
    SubSeq(r, line_to_char(r, line) + 1, line_to_char(r, line + 1))

\* the recurring "effective length": line length without a trailing line feed
effective_len(l) == IF Len(l) > 0 /\ l[Len(l)] = NL THEN Len(l) - 1 ELSE Len(l)

\* Rope::insert_char(len_chars, '\n') repeated n times
AppendNewlines(r, n) == r \o [i \in 1..n |-> NL]

-----------------------------------------------------------------------------
(* Grapheme boundaries (helix_core::graphemes) *)

IsGraphemeBoundary(r, i) == i = 0 \/ i >= Len(r) \/ ~IsExtend(r[i + 1])

\* prev_grapheme_boundary(text, pos), defined for pos <= len_chars
prev_grapheme_boundary(r, pos) ==
    IF pos = 0 THEN 0
    ELSE CHOOSE i \in 0..(pos - 1) :
           /\ IsGraphemeBoundary(r, i)
           /\ \A j \in (i + 1)..(pos - 1) : ~IsGraphemeBoundary(r, j)

\* next_grapheme_boundary(text, pos), defined for pos <= len_chars
next_grapheme_boundary(r, pos) ==
    IF pos >= Len(r) THEN Len(r)
    ELSE CHOOSE i \in (pos + 1)..Len(r) :
           /\ IsGraphemeBoundary(r, i)
           /\ \A j \in (pos + 1)..(i - 1) : ~IsGraphemeBoundary(r, j)

-----------------------------------------------------------------------------
(* helix_core::movement word motions, as called by move_word_left/right *)

\* Option<char>::None of range_to_target's prev_ch
NoChar == ""

\* reached_target for WordMotionTarget::NextWordEnd | PrevWordStart
reached_target(prev_ch, next_ch) ==
    /\ categorize_char(prev_ch) # categorize_char(next_ch)
    /\ (~is_whitespace(prev_ch) \/ char_is_line_ending(next_ch))

RECURSIVE SkipNewlinesFwd(_, _)
SkipNewlinesFwd(r, head) ==
    IF head < Len(r) /\ char_is_line_ending(r[head + 1])
    THEN SkipNewlinesFwd(r, head + 1) ELSE head

RECURSIVE SkipNewlinesBwd(_, _)
SkipNewlinesBwd(r, head) ==
    IF head > 0 /\ char_is_line_ending(r[head])
    THEN SkipNewlinesBwd(r, head - 1) ELSE head

RECURSIVE TargetLoopFwd(_, _, _, _, _)
TargetLoopFwd(r, head, prev_ch, anchor, head_start) ==
    IF head >= Len(r) THEN [anchor |-> anchor, head |-> head]
    ELSE LET next_ch == r[head + 1] IN
         IF prev_ch = NoChar \/ reached_target(prev_ch, next_ch)
         THEN IF head = head_start
              THEN TargetLoopFwd(r, head + 1, next_ch, head, head_start)
              ELSE [anchor |-> anchor, head |-> head]
         ELSE TargetLoopFwd(r, head + 1, next_ch, anchor, head_start)

RECURSIVE TargetLoopBwd(_, _, _, _, _)
TargetLoopBwd(r, head, prev_ch, anchor, head_start) ==
    IF head = 0 THEN [anchor |-> anchor, head |-> head]
    ELSE LET next_ch == r[head] IN
         IF prev_ch = NoChar \/ reached_target(prev_ch, next_ch)
         THEN IF head = head_start
              THEN TargetLoopBwd(r, head - 1, next_ch, head, head_start)
              ELSE [anchor |-> anchor, head |-> head]
         ELSE TargetLoopBwd(r, head - 1, next_ch, anchor, head_start)

\* CharHelpers::range_to_target(NextWordEnd, origin)
range_to_target_fwd(r, origin) ==
    LET prev0 == IF origin.head > 0 THEN r[origin.head] ELSE NoChar
        h1 == SkipNewlinesFwd(r, origin.head)
        prev1 == IF h1 > origin.head THEN NL ELSE prev0
        a1 == IF prev1 # NoChar /\ char_is_line_ending(prev1) THEN h1 ELSE origin.anchor
    IN  TargetLoopFwd(r, h1, prev1, a1, h1)

\* CharHelpers::range_to_target(PrevWordStart, origin)
range_to_target_bwd(r, origin) ==
    LET prev0 == IF origin.head < Len(r) THEN r[origin.head + 1] ELSE NoChar
        h1 == SkipNewlinesBwd(r, origin.head)
        prev1 == IF h1 < origin.head THEN NL ELSE prev0
        a1 == IF prev1 # NoChar /\ char_is_line_ending(prev1) THEN h1 ELSE origin.anchor
    IN  TargetLoopBwd(r, h1, prev1, a1, h1)

\* movement::move_next_word_end(text, range, 1), defined for head <= len_chars
move_next_word_end(r, range) ==
    IF range.head = Len(r) THEN range
    ELSE LET start_range ==
               IF range.anchor < range.head
               THEN [anchor |-> prev_grapheme_boundary(r, range.head), head |-> range.head]
               ELSE [anchor |-> range.head, head |-> next_grapheme_boundary(r, range.head)]
         IN  range_to_target_fwd(r, start_range)

\* movement::move_prev_word_start(text, range, 1), defined for head <= len_chars
move_prev_word_start(r, range) ==
    IF range.head = 0 THEN range
    ELSE LET start_range ==
               IF range.anchor < range.head
               THEN [anchor |-> range.head, head |-> prev_grapheme_boundary(r, range.head)]
               ELSE [anchor |-> next_grapheme_boundary(r, range.head), head |-> range.head]
         IN  range_to_target_bwd(r, start_range)

-----------------------------------------------------------------------------
(* The editor: a record e with the fields of TextEditor, the system        *)
(* clipboard, ret the value the last call returned ("true", "false" for    *)
(* Ok(bool), "err" for Err) and panic = TRUE once an operation panicked.   *)

NoBlock == [some |-> FALSE, anchor_line |-> 0, anchor_col |-> 0,
            cursor_line |-> 0, cursor_col |-> 0,
            anchor_visual_col |-> 0, cursor_visual_col |-> 0]

NoStart == [some |-> FALSE, row |-> 0, col |-> 0]

\* TextEditor::new, with the clipboard the system holds
NewEditor(clip) ==
    [rope |-> <<>>, anchor |-> 0, head |-> 0,
     cursor_pos |-> [row |-> 0, col |-> 0],
     scroll_x |-> 0, scroll_y |-> 0,
     selection_anchor |-> None, virtual_cursor_col |-> None,
     block_selection |-> NoBlock, potential_block_start |-> NoStart,
     clipboard |-> clip, ret |-> "none", panic |-> FALSE]

\* an index or slice out of range, or a String offset off a char boundary
Panic(e) == [e EXCEPT !.panic = TRUE]

\* Selection::point(pos)
Point(e, pos) == [e EXCEPT !.anchor = pos, !.head = pos]

\* Selection::single(anchor, head)
Single(e, a, h) == [e EXCEPT !.anchor = a, !.head = h]

Primary(e) == [anchor |-> e.anchor, head |-> e.head]

\* Range::from, Range::to
RangeFrom(e) == Min(e.anchor, e.head)
RangeTo(e) == Max(e.anchor, e.head)

\* Range::cursor(text) does not panic
CursorOk(e) == e.head > e.anchor => e.head <= Len(e.rope)

\* Range::cursor(text): the block-cursor position of the range
range_cursor(e) ==
    IF e.head > e.anchor THEN prev_grapheme_boundary(e.rope, e.head) ELSE e.head

\* effective length of line `line` of the rope
LineEff(r, line) == effective_len(rope_line(r, line))

\* TextEditor::follow_cursor
follow_cursor(e, cursor_x, cursor_y, padding) ==
    LET sy == IF cursor_y < e.scroll_y + padding
              THEN SatSub(cursor_y, padding)
              ELSE IF cursor_y >= e.scroll_y + VIEWPORT_HEIGHT - padding
              THEN cursor_y + padding + 1 - VIEWPORT_HEIGHT
              ELSE e.scroll_y
        sx == IF cursor_x < e.scroll_x + padding
              THEN SatSub(cursor_x, padding)
              ELSE IF cursor_x >= e.scroll_x + VIEWPORT_WIDTH - padding
              THEN cursor_x + padding + 1 - VIEWPORT_WIDTH
              ELSE e.scroll_x
    IN  [e EXCEPT !.scroll_y = sy, !.scroll_x = sx]

\* TextEditor::update_cursor_position (with pos_to_coords)
update_cursor_position(e) ==
    IF e.panic THEN e
    ELSE IF ~CursorOk(e) \/ range_cursor(e) > Len(e.rope) THEN Panic(e)
    ELSE LET pos == range_cursor(e)
             row == char_to_line(e.rope, pos)
             col == pos - line_to_char(e.rope, row)
             display_col == IF e.virtual_cursor_col # None
                            THEN e.virtual_cursor_col ELSE col
         IN  follow_cursor([e EXCEPT !.cursor_pos = [row |-> row, col |-> display_col]],
                           display_col, row, PADDING)

-----------------------------------------------------------------------------
(* Cursor movement *)

\* TextEditor::move_cursor_left
move_cursor_left(e) ==
    IF e.panic THEN e
    ELSE LET vc == e.virtual_cursor_col IN
    IF vc # None /\ vc > 0
    THEN IF e.head > Len(e.rope) THEN Panic(e)
         ELSE LET line == char_to_line(e.rope, e.head)
                  line_start == line_to_char(e.rope, line)
                  eff == LineEff(e.rope, line)
                  e1 == [e EXCEPT !.virtual_cursor_col = vc - 1,
                                  !.cursor_pos = [row |-> line, col |-> vc - 1]]
              IN  IF vc - 1 <= eff
                  THEN Point(e1, line_start + Min(vc - 1, eff))
                  ELSE e1
    ELSE IF e.head > Len(e.rope) THEN Panic(e)
         ELSE LET line == char_to_line(e.rope, e.head)
                  line_start == line_to_char(e.rope, line)
              IN  IF e.head > line_start
                  THEN LET new_pos == Max(prev_grapheme_boundary(e.rope, e.head), line_start)
                           e1 == update_cursor_position(Point(e, new_pos))
                       IN  [e1 EXCEPT !.virtual_cursor_col = None]
                  ELSE e

\* TextEditor::move_cursor_right
move_cursor_right(e) ==
    IF e.panic THEN e
    ELSE IF e.head > Len(e.rope) THEN Panic(e)
    ELSE LET line == char_to_line(e.rope, e.head)
             line_start == line_to_char(e.rope, line)
             eff == LineEff(e.rope, line)
             current_col == IF e.virtual_cursor_col # None
                            THEN e.virtual_cursor_col ELSE e.head - line_start
             new_col == current_col + 1
             e1 == [e EXCEPT !.virtual_cursor_col = new_col,
                             !.cursor_pos = [row |-> line, col |-> new_col]]
         IN  IF new_col <= eff
             THEN IF line_start + new_col <= Len(e.rope)
                  THEN Point(e1, line_start + new_col) ELSE e1
             ELSE Point(e1, line_start + eff)

\* a faulty vertical move: it remembers the clamped column, not the virtual one
MoveVerticalClamped(e, line, new_line) ==
    LET virtual_col == IF e.virtual_cursor_col # None
                       THEN e.virtual_cursor_col
                       ELSE e.head - line_to_char(e.rope, line)
        new_col == Min(virtual_col, LineEff(e.rope, new_line))
        new_pos == line_to_char(e.rope, new_line) + new_col
    IN  update_cursor_position(
            Point([e EXCEPT !.virtual_cursor_col = new_col], new_pos))

\* the shared body of move_cursor_up / move_cursor_down, new_line the target
MoveVertical(e, line, new_line) ==
    LET virtual_col == IF e.virtual_cursor_col # None
                       THEN e.virtual_cursor_col
                       ELSE e.head - line_to_char(e.rope, line)
        new_col == Min(virtual_col, LineEff(e.rope, new_line))
        new_pos == line_to_char(e.rope, new_line) + new_col
    IN  update_cursor_position(
            Point([e EXCEPT !.virtual_cursor_col = virtual_col], new_pos))

\* TextEditor::move_cursor_up
move_cursor_up(e) ==
    IF e.panic THEN e
    ELSE IF e.head > Len(e.rope) THEN Panic(e)
    ELSE LET line == char_to_line(e.rope, e.head) IN
         IF line > 0 THEN MoveVertical(e, line, line - 1) ELSE e

\* TextEditor::move_cursor_down
move_cursor_down(e) ==
    IF e.panic THEN e
    ELSE IF e.head > Len(e.rope) THEN Panic(e)
    ELSE LET line == char_to_line(e.rope, e.head)
             max_line == SatSub(len_lines(e.rope), 1)
         IN  IF line < max_line THEN MoveVertical(e, line, line + 1) ELSE e

\* `for _ in 0..acceleration { self.move_cursor_*() }`: a move that changes
\* nothing changes nothing however often it is repeated
RECURSIVE MoveLeftN(_, _)
MoveLeftN(e, n) ==
    IF n = 0 THEN e
    ELSE LET e1 == move_cursor_left(e) IN
         IF e1 = e THEN e ELSE MoveLeftN(e1, n - 1)

RECURSIVE MoveRightN(_, _)
MoveRightN(e, n) ==
    IF n = 0 THEN e
    ELSE LET e1 == move_cursor_right(e) IN
         IF e1 = e THEN e ELSE MoveRightN(e1, n - 1)

RECURSIVE MoveUpN(_, _)
MoveUpN(e, n) ==
    IF n = 0 THEN e
    ELSE LET e1 == move_cursor_up(e) IN
         IF e1 = e THEN e ELSE MoveUpN(e1, n - 1)

RECURSIVE MoveDownN(_, _)
MoveDownN(e, n) ==
    IF n = 0 THEN e
    ELSE LET e1 == move_cursor_down(e) IN
         IF e1 = e THEN e ELSE MoveDownN(e1, n - 1)

\* TextEditor::move_word_left
move_word_left(e) ==
    IF e.head > Len(e.rope) THEN Panic(e)
    ELSE LET line == char_to_line(e.rope, e.head)
             line_start == line_to_char(e.rope, line)
             new_range == move_prev_word_start(e.rope, Primary(e))
             new_pos == Max(new_range.head, line_start)
         IN  update_cursor_position(Point(e, new_pos))

\* TextEditor::move_word_right
move_word_right(e) ==
    IF e.head > Len(e.rope) THEN Panic(e)
    ELSE LET new_range == move_next_word_end(e.rope, Primary(e))
         IN  update_cursor_position(Single(e, new_range.anchor, new_range.head))

\* TextEditor::move_to_line_start
move_to_line_start(e) ==
    IF ~CursorOk(e) \/ range_cursor(e) > Len(e.rope) THEN Panic(e)
    ELSE LET pos == range_cursor(e)
             line_start == line_to_char(e.rope, char_to_line(e.rope, pos))
         IN  update_cursor_position(Single(e, line_start, line_start))

\* TextEditor::move_to_line_end
move_to_line_end(e) ==
    IF ~CursorOk(e) \/ range_cursor(e) > Len(e.rope) THEN Panic(e)
    ELSE LET pos == range_cursor(e)
             line == char_to_line(e.rope, pos)
             line_end == IF line < len_lines(e.rope) - 1
                         THEN line_to_char(e.rope, line + 1) - 1
                         ELSE Len(e.rope)
         IN  update_cursor_position(Single(e, line_end, line_end))

\* TextEditor::page_up
page_up(e) == MoveUpN(e, PAGE_LINES)

\* TextEditor::page_down
page_down(e) == MoveDownN(e, PAGE_LINES)

-----------------------------------------------------------------------------
(* Insertion and deletion *)

\* TextEditor::insert_char
insert_char(e0, ch) ==
    LET e == [e0 EXCEPT !.block_selection = NoBlock]
        vc == e.virtual_cursor_col
        inGap == /\ vc # None
                 /\ e.head <= Len(e.rope)
                 /\ vc > LineEff(e.rope, char_to_line(e.rope, e.head))
    IN
    IF vc # None /\ e.head > Len(e.rope) THEN Panic(e)
    ELSE IF inGap
    THEN LET line == char_to_line(e.rope, e.head)
             eff == LineEff(e.rope, line)
             spaces_needed == vc - eff
             insert_pos == line_to_char(e.rope, line) + eff
         IN  IF ~StrInsertOk(e.rope, insert_pos) THEN Panic(e)
             ELSE LET new_text == StrInsert(e.rope, insert_pos,
                                            Spaces(spaces_needed) \o <<ch>>)
                      new_pos == insert_pos + spaces_needed + 1
                  IN  update_cursor_position(
                          [Single(e, new_pos, new_pos) EXCEPT
                               !.rope = new_text, !.virtual_cursor_col = None])
    ELSE IF ~CursorOk(e) THEN Panic(e)
    ELSE LET pos == range_cursor(e) IN
         IF ~StrInsertOk(e.rope, pos) THEN Panic(e)
         ELSE LET new_text == StrInsert(e.rope, pos, <<ch>>)
                  e1 == update_cursor_position(
                            [Single(e, pos + 1, pos + 1) EXCEPT !.rope = new_text])
              IN  [e1 EXCEPT !.virtual_cursor_col = None]

\* TextEditor::insert_newline
insert_newline(e) == insert_char(e, NL)

\* TextEditor::delete_char_backward returns true
DeleteBackwardActs(e) == CursorOk(e) /\ range_cursor(e) > 0

\* a faulty backward delete: it deletes before the head, not before the cursor
delete_char_backward_at_head(e) ==
    LET pos == e.head IN
    IF pos > 0
    THEN IF pos > Len(e.rope) THEN Panic(e)
         ELSE LET start == prev_grapheme_boundary(e.rope, pos) IN
              IF ~StrDrainOk(e.rope, start, pos) THEN Panic(e)
              ELSE LET e1 == update_cursor_position(
                                 [Single(e, start, start) EXCEPT
                                      !.rope = StrDrain(e.rope, start, pos)])
                   IN  [e1 EXCEPT !.virtual_cursor_col = None]
    ELSE e

\* TextEditor::delete_char_backward
delete_char_backward(e) ==
    IF ~CursorOk(e) THEN Panic(e)
    ELSE LET pos == range_cursor(e) IN
         IF pos > 0
         THEN IF pos > Len(e.rope) THEN Panic(e)
              ELSE LET start == prev_grapheme_boundary(e.rope, pos) IN
                   IF ~StrDrainOk(e.rope, start, pos) THEN Panic(e)
                   ELSE LET e1 == update_cursor_position(
                                      [Single(e, start, start) EXCEPT
                                           !.rope = StrDrain(e.rope, start, pos)])
                        IN  [e1 EXCEPT !.virtual_cursor_col = None]
         ELSE e

\* TextEditor::delete_char_forward returns true
DeleteForwardActs(e) == CursorOk(e) /\ range_cursor(e) < Len(e.rope)

\* TextEditor::delete_char_forward
delete_char_forward(e) ==
    IF ~CursorOk(e) THEN Panic(e)
    ELSE LET pos == range_cursor(e) IN
         IF pos < Len(e.rope)
         THEN LET end == next_grapheme_boundary(e.rope, pos) IN
              IF ~StrDrainOk(e.rope, pos, end) THEN Panic(e)
              ELSE LET e1 == update_cursor_position(
                                 [Single(e, pos, pos) EXCEPT
                                      !.rope = StrDrain(e.rope, pos, end)])
                   IN  [e1 EXCEPT !.virtual_cursor_col = None]
         ELSE e

\* TextEditor::set_text
set_text(e, text) ==
    [e EXCEPT !.rope = text, !.anchor = 0, !.head = 0,
              !.cursor_pos = [row |-> 0, col |-> 0],
              !.scroll_x = 0, !.scroll_y = 0]

\* TextEditor::set_cursor_position
set_cursor_position(e, row, col) ==
    LET line_count == len_lines(e.rope)
        r1 == IF row >= line_count
              THEN AppendNewlines(e.rope, SatSub(row + 1, line_count))
              ELSE e.rope
        line == Min(row, SatSub(len_lines(r1), 1))
        char_pos == line_to_char(r1, line) + Min(col, LineEff(r1, line))
    IN  [e EXCEPT !.rope = r1, !.anchor = char_pos, !.head = char_pos,
                  !.cursor_pos = [row |-> line, col |-> col],
                  !.virtual_cursor_col = col]

-----------------------------------------------------------------------------
(* Shift selection *)

\* TextEditor::coords_to_pos
coords_to_pos(r, row, col) == line_to_char(r, row) + Min(col, LineEff(r, row))

\* the anchor the extend_selection_* methods use: the stored one, else the cursor
AnchorOr(e, cursor) == IF e.selection_anchor = None THEN cursor ELSE e.selection_anchor

\* TextEditor::extend_selection_left
extend_selection_left(e) ==
    IF ~CursorOk(e) \/ range_cursor(e) > Len(e.rope) THEN Panic(e)
    ELSE LET cursor == range_cursor(e)
             anchor == AnchorOr(e, cursor)
             new_cursor == prev_grapheme_boundary(e.rope, cursor)
         IN  [Single(e, anchor, new_cursor) EXCEPT !.selection_anchor = anchor]

\* TextEditor::extend_selection_right
extend_selection_right(e) ==
    IF ~CursorOk(e) \/ range_cursor(e) > Len(e.rope) THEN Panic(e)
    ELSE LET cursor == range_cursor(e)
             anchor == AnchorOr(e, cursor)
             new_cursor == next_grapheme_boundary(e.rope, cursor)
         IN  [Single(e, anchor, new_cursor) EXCEPT !.selection_anchor = anchor]

\* TextEditor::extend_selection_up
extend_selection_up(e) ==
    IF ~CursorOk(e) \/ range_cursor(e) > Len(e.rope) THEN Panic(e)
    ELSE LET cursor == range_cursor(e)
             anchor == AnchorOr(e, cursor)
             line == char_to_line(e.rope, cursor)
             col == cursor - line_to_char(e.rope, line)
             e1 == [e EXCEPT !.selection_anchor = anchor]
         IN  IF line > 0
             THEN Single(e1, anchor, coords_to_pos(e.rope, line - 1, col))
             ELSE e1

\* TextEditor::extend_selection_down
extend_selection_down(e) ==
    IF ~CursorOk(e) \/ range_cursor(e) > Len(e.rope) THEN Panic(e)
    ELSE LET cursor == range_cursor(e)
             anchor == AnchorOr(e, cursor)
             line == char_to_line(e.rope, cursor)
             col == cursor - line_to_char(e.rope, line)
             e1 == [e EXCEPT !.selection_anchor = anchor]
         IN  IF line < len_lines(e.rope) - 1
             THEN Single(e1, anchor, coords_to_pos(e.rope, line + 1, col))
             ELSE e1

\* TextEditor::select_all
select_all(e) == [Single(e, 0, Len(e.rope)) EXCEPT !.selection_anchor = 0]

-----------------------------------------------------------------------------
(* Coordinate translation and block selection (block_selection.rs) *)

\* the width a character adds at visual column v
WidthAt(ch, v) == IF ch = TAB THEN TAB_WIDTH - (v % TAB_WIDTH) ELSE UnicodeWidth(ch)

RECURSIVE VisualWalk(_, _, _, _)
\* char_idx_to_visual_col's loop: at index idx (0-based) and visual column v
VisualWalk(l, char_idx, idx, v) ==
    IF idx >= Len(l) \/ idx >= char_idx \/ l[idx + 1] = NL THEN v
    ELSE VisualWalk(l, char_idx, idx + 1, v + WidthAt(l[idx + 1], v))

\* block_selection::char_idx_to_visual_col
char_idx_to_visual_col(l, char_idx) == VisualWalk(l, char_idx, 0, 0)

RECURSIVE CharWalk(_, _, _, _)
\* visual_col_to_char_idx's loop
CharWalk(l, visual_col, idx, v) ==
    IF idx >= Len(l) \/ v >= visual_col \/ l[idx + 1] = NL THEN idx
    ELSE CharWalk(l, visual_col, idx + 1, v + WidthAt(l[idx + 1], v))

\* visual_col_to_char_idx with the loop left once the column is passed, not
\* once it is reached
visual_col_to_char_idx_passed(l, visual_col) == CharWalk(l, visual_col + 1, 0, 0)

\* block_selection::visual_col_to_char_idx
visual_col_to_char_idx(l, visual_col) == CharWalk(l, visual_col, 0, 0)

\* BlockSelection::new
BlockNew(line, col) ==
    [some |-> TRUE, anchor_line |-> line, anchor_col |-> col,
     cursor_line |-> line, cursor_col |-> col,
     anchor_visual_col |-> col, cursor_visual_col |-> col]

\* BlockSelection::extend_to
extend_to(b, line, col, visual_col) ==
    [b EXCEPT !.cursor_line = line, !.cursor_col = col, !.cursor_visual_col = visual_col]

\* BlockSelection::normalized / visual_bounds
BlockMinLine(b) == Min(b.anchor_line, b.cursor_line)
BlockMaxLine(b) == Max(b.anchor_line, b.cursor_line)
BlockMinCol(b) == Min(b.anchor_visual_col, b.cursor_visual_col)
BlockMaxCol(b) == Max(b.anchor_visual_col, b.cursor_visual_col)

\* the block selection the extend_block_selection_* methods start from
BlockOrNew(e, line, col) ==
    IF e.block_selection.some THEN e.block_selection ELSE BlockNew(line, col)

\* TextEditor::extend_block_selection_left
extend_block_selection_left(e) ==
    IF e.head > Len(e.rope) THEN Panic(e)
    ELSE LET line == char_to_line(e.rope, e.head)
             col == e.head - line_to_char(e.rope, line)
             b == BlockOrNew(e, line, col)
         IN  IF col > 0
             THEN [e EXCEPT !.block_selection =
                     extend_to(b, line, col - 1,
                               char_idx_to_visual_col(rope_line(e.rope, line), col - 1))]
             ELSE [e EXCEPT !.block_selection = b]

\* TextEditor::extend_block_selection_right
extend_block_selection_right(e) ==
    IF e.head > Len(e.rope) THEN Panic(e)
    ELSE LET line == char_to_line(e.rope, e.head)
             col == e.head - line_to_char(e.rope, line)
             line_len == Len(rope_line(e.rope, line))
             b == BlockOrNew(e, line, col)
         IN  IF col < line_len
             THEN [e EXCEPT !.block_selection =
                     extend_to(b, line, col + 1,
                               char_idx_to_visual_col(rope_line(e.rope, line), col + 1))]
             ELSE [e EXCEPT !.block_selection = b]

\* TextEditor::extend_block_selection_up
extend_block_selection_up(e) ==
    IF e.head > Len(e.rope) THEN Panic(e)
    ELSE LET line == char_to_line(e.rope, e.head)
             col == e.head - line_to_char(e.rope, line)
             b == BlockOrNew(e, line, col)
         IN  IF line > 0
             THEN [e EXCEPT !.block_selection =
                     extend_to(b, line - 1, col,
                               char_idx_to_visual_col(rope_line(e.rope, line - 1), col))]
             ELSE [e EXCEPT !.block_selection = b]

\* TextEditor::extend_block_selection_down
extend_block_selection_down(e) ==
    IF e.head > Len(e.rope) THEN Panic(e)
    ELSE LET line == char_to_line(e.rope, e.head)
             col == e.head - line_to_char(e.rope, line)
             max_line == len_lines(e.rope) - 1
             b == BlockOrNew(e, line, col)
         IN  IF line < max_line
             THEN [e EXCEPT !.block_selection =
                     extend_to(b, line + 1, col,
                               char_idx_to_visual_col(rope_line(e.rope, line + 1), col))]
             ELSE [e EXCEPT !.block_selection = b]

\* Range::overlaps
RangeOverlaps(a, b) ==
    \/ Min(a.anchor, a.head) = Min(b.anchor, b.head)
    \/ /\ Max(a.anchor, a.head) > Min(b.anchor, b.head)
       /\ Max(b.anchor, b.head) > Min(a.anchor, a.head)

RECURSIVE SelectionNormalize(_)
\* Selection::normalize on ranges in ascending order, as to_selection pushes
\* them: a range that overlaps the one before it is merged into it
SelectionNormalize(ranges) ==
    IF Len(ranges) < 2 THEN ranges
    ELSE IF RangeOverlaps(ranges[1], ranges[2])
         THEN SelectionNormalize(
                <<[anchor |-> Min(ranges[1].anchor, ranges[2].anchor),
                   head |-> Max(ranges[1].head, ranges[2].head)]>>
                \o SubSeq(ranges, 3, Len(ranges)))
         ELSE <<ranges[1]>> \o SelectionNormalize(Tail(ranges))

\* to_selection's range for a line, by character columns instead of visual
\* columns
LineRangeByChars(b, r, line_idx) ==
    LET line_len == Len(rope_line(r, line_idx))
        line_start == line_to_char(r, line_idx)
    IN  [anchor |-> line_start + Min(BlockMinCol(b), line_len),
         head |-> line_start + Min(BlockMaxCol(b), line_len)]

\* the body of to_selection's loop: the range of line line_idx
LineRange(b, r, line_idx) ==
    LET line == rope_line(r, line_idx)
        line_start == line_to_char(r, line_idx)
        line_len == Len(line)
        start_char == Min(visual_col_to_char_idx(line, BlockMinCol(b)), line_len)
        end_char == Min(visual_col_to_char_idx(line, BlockMaxCol(b)), line_len)
    IN  [anchor |-> line_start + start_char, head |-> line_start + end_char]

RECURSIVE ToSelectionRanges(_, _, _)
\* to_selection's loop from line line_idx on
ToSelectionRanges(b, r, line_idx) ==
    IF line_idx > BlockMaxLine(b) \/ line_idx >= len_lines(r) THEN <<>>
    ELSE LET range == LineRange(b, r, line_idx)
         IN  (IF range.anchor <= range.head THEN <<range>> ELSE <<>>)
             \o ToSelectionRanges(b, r, line_idx + 1)

\* BlockSelection::to_selection: the ranges of the selection, or a panic
\* when the fallback asks for a line past the end of the rope
to_selection(b, r) ==
    LET ranges == ToSelectionRanges(b, r, BlockMinLine(b))
    IN  IF ranges = <<>>
        THEN IF b.cursor_line > len_lines(r)
             THEN [panic |-> TRUE, ranges |-> <<>>]
             ELSE LET pos == line_to_char(r, b.cursor_line) + b.cursor_col
                  IN  [panic |-> FALSE, ranges |-> <<[anchor |-> pos, head |-> pos]>>]
        ELSE [panic |-> FALSE, ranges |-> SelectionNormalize(ranges)]

-----------------------------------------------------------------------------
(* Clipboard operations *)

Ret(e, v) == [e EXCEPT !.ret = v]

RECURSIVE SplitLines(_)
\* str::lines: split at line feeds, no empty piece after a final line feed
SplitLines(s) ==
    IF s = <<>> THEN <<>>
    ELSE IF \E k \in 1..Len(s) : s[k] = NL
    THEN LET k == CHOOSE k \in 1..Len(s) : s[k] = NL /\ \A j \in 1..(k - 1) : s[j] # NL
         IN  <<SubSeq(s, 1, k - 1)>> \o SplitLines(SubSeq(s, k + 1, Len(s)))
    ELSE <<s>>

RECURSIVE JoinLines(_)
\* [String]::join("\n")
JoinLines(ls) ==
    IF ls = <<>> THEN <<>>
    ELSE IF Len(ls) = 1 THEN ls[1]
    ELSE ls[1] \o <<NL>> \o JoinLines(Tail(ls))

\* a rope line as a String without its line feed; empty past the document end
LineText(r, line_idx) ==
    IF line_idx < len_lines(r)
    THEN LET l == rope_line(r, line_idx) IN SubSeq(l, 1, effective_len(l))
    ELSE <<>>

RECURSIVE RowLoop(_, _, _, _, _, _)
\* copy_selection's extraction loop over one row: i the next character (1-based),
\* cv the visual column reached, acc the text selected so far
RowLoop(l, i, cv, start_col, end_col, acc) ==
    IF i > Len(l) \/ cv >= end_col THEN [selected |-> acc, current_visual |-> cv]
    ELSE LET ch == l[i]
             w == WidthAt(ch, cv)
             acc1 == IF cv + w > start_col
                     THEN IF cv < start_col
                          THEN acc \o Spaces(Min(cv + w, end_col) - start_col)
                          ELSE acc \o <<ch>>
                     ELSE acc
         IN  RowLoop(l, i + 1, cv + w, start_col, end_col, acc1)

\* the text copy_selection builds for one row of a block selection
RowText(l, start_col, end_col) ==
    LET visual_width == char_idx_to_visual_col(l, Len(l))
        lead == IF start_col > visual_width THEN Spaces(start_col - visual_width) ELSE <<>>
        got == RowLoop(l, 1, 0, start_col, end_col, lead)
    IN  IF end_col > got.current_visual /\ got.current_visual >= start_col
        THEN got.selected \o Spaces(end_col - got.current_visual)
        ELSE got.selected

\* the clipboard text of a block selection
BlockText(r, b) ==
    JoinLines([k \in 1..(BlockMaxLine(b) - BlockMinLine(b) + 1) |->
                 RowText(LineText(r, BlockMinLine(b) + k - 1),
                         BlockMinCol(b), BlockMaxCol(b))])

\* TextEditor::copy_to_clipboard; ok: the clipboard utility ran
copy_to_clipboard(e, text, ok) ==
    IF ok THEN Ret([e EXCEPT !.clipboard = text], "ok") ELSE Ret(e, "err")

\* TextEditor::copy_selection; ret is "ok" for Ok(()) and "err" for Err
copy_selection(e, ok) ==
    IF e.block_selection.some
    THEN copy_to_clipboard(e, BlockText(e.rope, e.block_selection), ok)
    ELSE IF RangeTo(e) - RangeFrom(e) > 0
    THEN IF RangeTo(e) > Len(e.rope) THEN Panic(e)
         ELSE copy_to_clipboard(e, SubSeq(e.rope, RangeFrom(e) + 1, RangeTo(e)), ok)
    ELSE Ret(e, "ok")

\* one row of cut_selection's block branch: the line without the rectangle
CutRowOk(l, start_col, end_col) ==
    LET sc == Min(visual_col_to_char_idx(l, start_col), ByteLen(l))
        ec == Min(visual_col_to_char_idx(l, end_col), ByteLen(l))
    IN  sc < ec => IsCharBoundary(l, sc) /\ IsCharBoundary(l, ec)

CutRow(l, start_col, end_col) ==
    LET sc == Min(visual_col_to_char_idx(l, start_col), ByteLen(l))
        ec == Min(visual_col_to_char_idx(l, end_col), ByteLen(l))
    IN  IF sc < ec THEN StrDrain(l, sc, ec) ELSE l

\* TextEditor::cut_selection
cut_selection(e, ok) ==
    IF e.block_selection.some
    THEN LET b == e.block_selection
             e1 == copy_selection(e, ok)
             lines == SplitLines(e.rope)
             InBlock(k) == k - 1 >= BlockMinLine(b) /\ k - 1 <= BlockMaxLine(b)
         IN  IF e1.ret = "err" THEN e1
             ELSE IF \E k \in 1..Len(lines) :
                        InBlock(k) /\ ~CutRowOk(lines[k], BlockMinCol(b), BlockMaxCol(b))
             THEN Panic(e)
             ELSE LET new_lines == [k \in 1..Len(lines) |->
                                      IF InBlock(k)
                                      THEN CutRow(lines[k], BlockMinCol(b), BlockMaxCol(b))
                                      ELSE lines[k]]
                      new_rope == JoinLines(new_lines)
                      cursor_line == Min(BlockMaxLine(b), SatSub(len_lines(new_rope), 1))
                      pos == line_to_char(new_rope, cursor_line)
                               + Min(BlockMaxCol(b), Len(rope_line(new_rope, cursor_line)))
                  IN  Ret([Point(e1, pos) EXCEPT !.rope = new_rope,
                                                 !.block_selection = NoBlock,
                                                 !.selection_anchor = None], "true")
    ELSE IF RangeTo(e) - RangeFrom(e) > 0
    THEN IF RangeTo(e) > Len(e.rope) THEN Panic(e)
         ELSE LET e1 == copy_to_clipboard(e, SubSeq(e.rope, RangeFrom(e) + 1, RangeTo(e)), ok)
              IN  IF e1.ret = "err" THEN e1
                  ELSE IF ~StrDrainOk(e.rope, RangeFrom(e), RangeTo(e)) THEN Panic(e)
                  ELSE Ret([Point(e1, RangeFrom(e)) EXCEPT
                                !.rope = StrDrain(e.rope, RangeFrom(e), RangeTo(e)),
                                !.selection_anchor = None], "true")
    ELSE Ret(e, "false")


\* Rope::line_to_byte
line_to_byte(r, line) == ByteOff(r, line_to_char(r, line))

\* Rope::byte_to_line, defined for b <= len_bytes
byte_to_line(r, b) == Cardinality({i \in 1..Len(r) : r[i] = NL /\ ByteOff(r, i) <= b})

RECURSIVE ByteColWalk(_, _, _, _, _)
\* the walk along a line that counts a tab as 4 columns and anything else as 1,
\* until visual column `target`: i the next character, returns the byte offset
ByteColWalk(l, target, i, visual_col, byte_col) ==
    IF i > Len(l) \/ visual_col >= target THEN byte_col
    ELSE ByteColWalk(l, target, i + 1,
                     visual_col + (IF l[i] = TAB THEN 4 ELSE 1),
                     byte_col + Utf8Len(l[i]))

RECURSIVE VisualOfByteWalk(_, _, _, _, _)
\* byte_index_to_position's walk: the visual column of byte offset col_byte
VisualOfByteWalk(l, col_byte, i, byte_count, visual_col) ==
    IF i > Len(l) \/ byte_count >= col_byte THEN visual_col
    ELSE VisualOfByteWalk(l, col_byte, i + 1, byte_count + Utf8Len(l[i]),
                          visual_col + (IF l[i] = TAB THEN 4 ELSE 1))

\* TextEditor::byte_index_to_position
byte_index_to_position(r, byte_idx0) ==
    LET byte_idx == Min(byte_idx0, ByteLen(r))
        row == byte_to_line(r, byte_idx)
        col_byte == byte_idx - line_to_byte(r, row)
    IN  [row |-> row, col |-> VisualOfByteWalk(rope_line(r, row), col_byte, 1, 0, 0)]

RECURSIVE PasteRows(_, _, _, _, _, _, _)
\* paste's loop over the rows of a block selection: r0 the rope the offsets are
\* read from, new_text the String the clipboard lines are inserted into
PasteRows(r0, new_text, row, max_row, i, min_col, paste_lines) ==
    IF row > max_row THEN [text |-> new_text, panic |-> FALSE]
    ELSE IF row < len_lines(r0)
    THEN LET insert_pos == line_to_byte(r0, row)
                             + ByteColWalk(rope_line(r0, row), min_col, 1, 0, 0)
             paste_text == IF i < Len(paste_lines) THEN paste_lines[i + 1]
                           ELSE IF Len(paste_lines) = 1 THEN paste_lines[1]
                           ELSE <<>>
         IN  IF insert_pos <= ByteLen(new_text)
             THEN IF ~StrInsertOk(new_text, insert_pos)
                  THEN [text |-> new_text, panic |-> TRUE]
                  ELSE PasteRows(r0, StrInsert(new_text, insert_pos, paste_text),
                                 row + 1, max_row, i + 1, min_col, paste_lines)
             ELSE PasteRows(r0, new_text, row + 1, max_row, i + 1, min_col, paste_lines)
    ELSE PasteRows(r0, new_text, row + 1, max_row, i + 1, min_col, paste_lines)

\* the rope after paste's line extension and space padding at cursor_pos
PastePadded(r, line, col) ==
    LET r1 == IF line >= len_lines(r)
              THEN AppendNewlines(r, line + 1 - len_lines(r)) ELSE r
        line_len == LineEff(r1, line)
        insert_pos == line_to_char(r1, line) + line_len
    IN  IF col > line_len
        THEN SubSeq(r1, 1, insert_pos) \o Spaces(col - line_len)
               \o SubSeq(r1, insert_pos + 1, Len(r1))
        ELSE r1

\* TextEditor::paste once paste_from_clipboard has returned Ok(clipboard_text)
paste_text(e, clipboard_text) ==
    LET line == e.cursor_pos.row
        col == e.cursor_pos.col
        r1 == PastePadded(e.rope, line, col)
        cursor_char_pos == line_to_char(r1, line) + col
        e1 == [e EXCEPT !.rope = r1]
    IN
    IF e.block_selection.some
    THEN LET b == e.block_selection
             res == PasteRows(r1, r1, BlockMinLine(b), BlockMaxLine(b), 0,
                              BlockMinCol(b), SplitLines(clipboard_text))
         IN  IF res.panic THEN Panic(e)
             ELSE Ret([e1 EXCEPT !.rope = res.text, !.block_selection = NoBlock], "true")
    ELSE IF e.selection_anchor # None
    THEN IF ~StrDrainOk(r1, RangeFrom(e), RangeTo(e)) THEN Panic(e)
         ELSE LET drained == StrDrain(r1, RangeFrom(e), RangeTo(e)) IN
              IF ~StrInsertOk(drained, RangeFrom(e)) THEN Panic(e)
              ELSE LET new_text == StrInsert(drained, RangeFrom(e), clipboard_text)
                       new_pos == RangeFrom(e) + ByteLen(clipboard_text)
                   IN  Ret([Point(e1, new_pos) EXCEPT
                                !.rope = new_text,
                                !.cursor_pos = byte_index_to_position(new_text, new_pos),
                                !.selection_anchor = None], "true")
    ELSE LET k == Min(cursor_char_pos, Len(r1))
             new_text == SubSeq(r1, 1, k) \o clipboard_text \o SubSeq(r1, k + 1, Len(r1))
             new_char_pos == cursor_char_pos + Len(clipboard_text)
         IN  IF new_char_pos > Len(new_text) THEN Panic(e)
             ELSE LET new_line == char_to_line(new_text, new_char_pos)
                      new_col == new_char_pos - line_to_char(new_text, new_line)
                  IN  Ret([Point(e1, new_char_pos) EXCEPT
                               !.rope = new_text,
                               !.cursor_pos = [row |-> new_line, col |-> new_col]], "true")

\* the mutant of paste that takes a failed read for an empty clipboard
paste_unwrap_or_default(e, ok) == paste_text(e, IF ok THEN e.clipboard ELSE <<>>)

\* TextEditor::paste; ok: paste_from_clipboard returned the clipboard text
paste(e, ok) == IF ~ok THEN Ret(e, "false") ELSE paste_text(e, e.clipboard)

-----------------------------------------------------------------------------
(* Key events: TextEditor::handle_key_with_acceleration.  key names the    *)
(* (code, modifiers) pair, ch the character of a Char key, n the           *)
(* acceleration, ok whether the clipboard utility runs.                    *)

ArrowKeys == {"Left", "Right", "Up", "Down"}
ShiftArrowKeys == {"ShiftLeft", "ShiftRight", "ShiftUp", "ShiftDown"}
BlockArrowKeys == {"AltShiftLeft", "AltShiftRight", "AltShiftUp", "AltShiftDown"}
WordKeys == {"CtrlLeft", "CtrlRight", "CtrlShiftLeft", "CtrlShiftRight"}
LineKeys == {"Home", "End", "PageUp", "PageDown"}
DeleteKeys == {"Backspace", "Delete"}

\* the character a typing key inserts
TypedChar(key, ch) == IF key = "Enter" THEN NL ELSE IF key = "Tab" THEN TAB ELSE ch

\* TextEditor::handle_key_with_acceleration
handle_key_with_acceleration(e, key, ch, n, ok) ==
    CASE key = "Left" ->
           Ret([MoveLeftN(e, n) EXCEPT !.selection_anchor = None,
                                       !.block_selection = NoBlock,
                                       !.potential_block_start = NoStart], "false")
      [] key = "Right" ->
           Ret([MoveRightN(e, n) EXCEPT !.selection_anchor = None,
                                        !.block_selection = NoBlock], "false")
      [] key = "Up" ->
           Ret([MoveUpN(e, n) EXCEPT !.selection_anchor = None,
                                     !.block_selection = NoBlock], "false")
      [] key = "Down" ->
           Ret([MoveDownN(e, n) EXCEPT !.selection_anchor = None,
                                       !.block_selection = NoBlock], "false")
      [] key = "ShiftLeft" ->
           Ret([extend_selection_left(e) EXCEPT !.block_selection = NoBlock], "false")
      [] key = "ShiftRight" ->
           Ret([extend_selection_right(e) EXCEPT !.block_selection = NoBlock], "false")
      [] key = "ShiftUp" ->
           Ret([extend_selection_up(e) EXCEPT !.block_selection = NoBlock], "false")
      [] key = "ShiftDown" ->
           Ret([extend_selection_down(e) EXCEPT !.block_selection = NoBlock], "false")
      [] key = "AltShiftLeft" -> Ret(extend_block_selection_left(e), "false")
      [] key = "AltShiftRight" -> Ret(extend_block_selection_right(e), "false")
      [] key = "AltShiftUp" -> Ret(extend_block_selection_up(e), "false")
      [] key = "AltShiftDown" -> Ret(extend_block_selection_down(e), "false")
      [] key = "CtrlLeft" ->
           Ret([move_word_left(e) EXCEPT !.selection_anchor = None], "false")
      [] key = "CtrlShiftLeft" -> Ret(move_word_left(e), "false")
      [] key = "CtrlRight" ->
           Ret([move_word_right(e) EXCEPT !.selection_anchor = None], "false")
      [] key = "CtrlShiftRight" -> Ret(move_word_right(e), "false")
      [] key = "Home" -> Ret(move_to_line_start(e), "false")
      [] key = "End" -> Ret(move_to_line_end(e), "false")
      [] key = "PageUp" -> Ret(page_up(e), "false")
      [] key = "PageDown" -> Ret(page_down(e), "false")
      [] key \in {"Char", "Enter", "Tab"} ->
           Ret(insert_char(e, TypedChar(key, ch)), "true")
      [] key = "Backspace" ->
           Ret(delete_char_backward(e),
               IF DeleteBackwardActs(e) THEN "true" ELSE "false")
      [] key = "Delete" ->
           Ret(delete_char_forward(e),
               IF DeleteForwardActs(e) THEN "true" ELSE "false")
      [] key = "CtrlA" -> Ret(select_all(e), "false")
      [] key = "CtrlX" -> cut_selection(e, ok)
      [] key = "CtrlC" ->
           LET e1 == copy_selection(e, ok) IN
           IF e1.ret = "err" THEN e1 ELSE Ret(e1, "false")
      [] key = "CtrlV" -> paste(e, ok)
      [] OTHER -> Ret(e, "false")

\* TextEditor::handle_key
handle_key(e, key, ch, ok) == handle_key_with_acceleration(e, key, ch, 1, ok)

-----------------------------------------------------------------------------
(* Mouse events in the editor area: App::handle_mouse *)

\* MouseEventKind::Down(Left) in the editor area
mouse_down(e, row, col) ==
    [set_cursor_position([e EXCEPT !.block_selection = NoBlock], row, col)
       EXCEPT !.potential_block_start = [some |-> TRUE, row |-> row, col |-> col]]

\* MouseEventKind::Drag(Left) in the editor area
mouse_drag(e, row, col) ==
    LET start == e.potential_block_start
        b0 == IF ~e.block_selection.some /\ start.some
                 /\ (row # start.row \/ col # start.col)
              THEN BlockNew(start.row, start.col)
              ELSE e.block_selection
    IN  IF b0.some
        THEN [e EXCEPT !.block_selection = extend_to(b0, row, col, col)]
        ELSE e

\* MouseEventKind::Up(Left)
mouse_up(e) ==
    LET b == e.block_selection
        click == b.some /\ b.anchor_line = b.cursor_line /\ b.anchor_col = b.cursor_col
    IN  [e EXCEPT !.potential_block_start = NoStart,
                  !.block_selection = IF click THEN NoBlock ELSE b]

-----------------------------------------------------------------------------
(* The viewport renderer (edit_renderer.rs): a record rd with the fields   *)
(* of EditPanelRenderer.  Its scroll offsets and sizes are u16; debug says *)
(* whether the build checks arithmetic overflow (it panics) or wraps.      *)

U16 == 65536

\* no renderer has been constructed
NoRenderer ==
    [some |-> FALSE, buffer |-> <<>>, viewport_width |-> 0, viewport_height |-> 0,
     scroll_x |-> 0, scroll_y |-> 0, viewport_x |-> 0, viewport_y |-> 0,
     debug |-> FALSE, panic |-> FALSE]

\* EditPanelRenderer::new
RendererNew(width, height, debug) ==
    [some |-> TRUE, buffer |-> [i \in 1..height |-> [j \in 1..width |-> SP]],
     viewport_width |-> width, viewport_height |-> height,
     scroll_x |-> 0, scroll_y |-> 0, viewport_x |-> 0, viewport_y |-> 0,
     debug |-> debug, panic |-> FALSE]

\* EditPanelRenderer::update_from_rope: one row per line of the rope, without
\* its line feed, padded with spaces to the viewport width
update_from_rope(rd, r) ==
    [rd EXCEPT !.buffer =
        [i \in 1..len_lines(r) |->
            LET row == SelectSeq(rope_line(r, i - 1), LAMBDA ch : ch # NL)
            IN  row \o Spaces(SatSub(rd.viewport_width, Len(row)))]]

\* the outcome of a u16 computation whose exact value is n: the value, or a
\* panic where the build checks overflow, or the wrapped value
Checked(rd, n) == IF n \in 0..(U16 - 1) THEN rd ELSE [rd EXCEPT !.panic = rd.debug]

\* buffer.len().saturating_sub(viewport_height) as u16
MaxScrollY(rd) == SatSub(Len(rd.buffer), rd.viewport_height) % U16

\* buffer.get(0).map(|r| r.len()).unwrap_or(0).saturating_sub(viewport_width) as u16
MaxScrollX(rd) ==
    SatSub(IF Len(rd.buffer) > 0 THEN Len(rd.buffer[1]) ELSE 0, rd.viewport_width) % U16

\* EditPanelRenderer::scroll_up
scroll_up(rd, lines) ==
    [rd EXCEPT !.scroll_y = SatSub(rd.scroll_y, lines),
               !.viewport_y = SatSub(rd.scroll_y, lines)]

\* EditPanelRenderer::scroll_down
scroll_down(rd, lines) ==
    LET y == Min((rd.scroll_y + lines) % U16, MaxScrollY(rd))
    IN  Checked([rd EXCEPT !.scroll_y = y, !.viewport_y = y], rd.scroll_y + lines)

\* EditPanelRenderer::scroll_left
scroll_left(rd, cols) ==
    [rd EXCEPT !.scroll_x = SatSub(rd.scroll_x, cols),
               !.viewport_x = SatSub(rd.scroll_x, cols)]

\* EditPanelRenderer::scroll_right
scroll_right(rd, cols) ==
    LET x == Min((rd.scroll_x + cols) % U16, MaxScrollX(rd))
    IN  Checked([rd EXCEPT !.scroll_x = x, !.viewport_x = x], rd.scroll_x + cols)

\* one axis of EditPanelRenderer::follow_cursor: the cursor c (already cast
\* to u16), the scroll offset, the viewport size and the largest offset the
\* content allows; gives the new offset and whether a u16 operation left
\* its range
FollowAxis(c, scroll, size, max_scroll, padding) ==
    LET near == (scroll + padding) % U16
        far == (scroll + SatSub(size, padding)) % U16
        min_scroll == SatSub(c, SatSub(size, (padding + 1) % U16))
        s1 == IF c < near THEN SatSub(c, padding)
              ELSE IF c >= far THEN Min(min_scroll, max_scroll)
              ELSE scroll
        o1 == \/ scroll + padding >= U16
              \/ c >= near /\ scroll + SatSub(size, padding) >= U16
              \/ c >= near /\ c >= far /\ padding + 1 >= U16
        end == (s1 + size) % U16
        s2 == IF c < s1 THEN c
              ELSE IF c >= end THEN SatSub(c, (size - 1) % U16)
              ELSE s1
        o2 == \/ c >= s1 /\ s1 + size >= U16
              \/ c >= s1 /\ c >= end /\ size = 0
    IN  [scroll |-> s2, overflow |-> o1 \/ o2]

\* EditPanelRenderer::follow_cursor
render_follow_cursor(rd, cursor_x, cursor_y, padding) ==
    LET y == FollowAxis(cursor_y % U16, rd.scroll_y, rd.viewport_height,
                        MaxScrollY(rd), padding)
        x == FollowAxis(cursor_x % U16, rd.scroll_x, rd.viewport_width,
                        MaxScrollX(rd), padding)
    IN  [rd EXCEPT !.scroll_x = x.scroll, !.scroll_y = y.scroll,
                   !.viewport_x = x.scroll, !.viewport_y = y.scroll,
                   !.panic = rd.debug /\ (x.overflow \/ y.overflow)]

-----------------------------------------------------------------------------
(* The state machine.  The variables are the fields of TextEditor, the     *)
(* system clipboard, the outcome of the last call (ret, panic), the last   *)
(* event ev and the event before it, pev, App's key-repeat fields, the     *)
(* monotonic clock now, in milliseconds, the viewport renderer, and        *)
(* selected_note, the note being edited with the content the store holds   *)
(* for it.                                                                 *)

VARIABLES rope, anchor, head, cursor_pos, scroll_x, scroll_y, selection_anchor,
          virtual_cursor_col, block_selection, potential_block_start,
          clipboard, ret, panic, ev, pev,
          last_arrow_key, arrow_key_count, last_arrow_time, now, renderer,
          selected_note

vars == <<rope, anchor, head, cursor_pos, scroll_x, scroll_y, selection_anchor,
          virtual_cursor_col, block_selection, potential_block_start,
          clipboard, ret, panic, ev, pev,
          last_arrow_key, arrow_key_count, last_arrow_time, now, renderer,
          selected_note>>

\* the key-repeat fields of App
Accel == <<last_arrow_key, arrow_key_count, last_arrow_time>>

\* the acceleration steps update_arrow_acceleration hands to the editor
AccelSteps == {1, 3, 6, 10}

\* the acceleration window of update_arrow_acceleration, in milliseconds
ACCEL_WINDOW == 300

\* update_arrow_acceleration: the key-repeat fields after a press of arrow
\* key at time t, and the step multiplier of that press
update_arrow_acceleration(last_key, key_count, last_time, t, key) ==
    LET count == IF last_key # ""
                 THEN IF last_key = key
                      THEN IF last_time # None
                           THEN IF t - last_time < ACCEL_WINDOW
                                THEN key_count + 1
                                ELSE 1
                           ELSE key_count
                      ELSE 1
                 ELSE 1
    IN  [last_arrow_key |-> key, arrow_key_count |-> count, last_arrow_time |-> t,
         acceleration |-> IF count \in 1..3 THEN 1
                          ELSE IF count \in 4..8 THEN 3
                          ELSE IF count \in 9..15 THEN 6
                          ELSE 10]

\* the editor as a record
Ed ==
    [rope |-> rope, anchor |-> anchor, head |-> head, cursor_pos |-> cursor_pos,
     scroll_x |-> scroll_x, scroll_y |-> scroll_y,
     selection_anchor |-> selection_anchor,
     virtual_cursor_col |-> virtual_cursor_col,
     block_selection |-> block_selection,
     potential_block_start |-> potential_block_start,
     clipboard |-> clipboard, ret |-> ret, panic |-> panic]

Event(op, key, ch) == [op |-> op, key |-> key, ch |-> ch]

\* a specification's limits: documents of at most len characters, columns of
\* at most col, and hist, the keys that are remembered in pev when the next
\* event arrives
Limits(len, col, hist) == [len |-> len, col |-> col, hist |-> hist]

\* the process has ended once a call panicked or returned Err (App::run
\* returns the error)
Running == ~panic /\ ret # "err"

\* the editor's step to state e, recorded as event event
EditorBecomes(next, event, lim) ==
    \E e \in {next} :
    /\ Len(e.rope) <= lim.len
    /\ e.virtual_cursor_col <= lim.col
    /\ rope' = e.rope
    /\ anchor' = e.anchor
    /\ head' = e.head
    /\ cursor_pos' = e.cursor_pos
    /\ scroll_x' = e.scroll_x
    /\ scroll_y' = e.scroll_y
    /\ selection_anchor' = e.selection_anchor
    /\ virtual_cursor_col' = e.virtual_cursor_col
    /\ block_selection' = e.block_selection
    /\ potential_block_start' = e.potential_block_start
    /\ clipboard' = e.clipboard
    /\ ret' = e.ret
    /\ panic' = e.panic
    /\ ev' = event
    /\ pev' = IF ev.key \in lim.hist THEN ev ELSE event

\* a step of the editor alone
Becomes(next, event, lim) ==
    /\ EditorBecomes(next, event, lim)
    /\ UNCHANGED <<Accel, now, renderer, selected_note>>

\* App::selected_note when no note is selected
NoNote == [some |-> FALSE, content |-> <<>>]

\* the editor starts as record e
StartsAs(e) ==
    /\ rope = e.rope
    /\ anchor = e.anchor
    /\ head = e.head
    /\ cursor_pos = e.cursor_pos
    /\ scroll_x = e.scroll_x
    /\ scroll_y = e.scroll_y
    /\ selection_anchor = e.selection_anchor
    /\ virtual_cursor_col = e.virtual_cursor_col
    /\ block_selection = e.block_selection
    /\ potential_block_start = e.potential_block_start
    /\ clipboard = e.clipboard
    /\ ret = e.ret
    /\ panic = e.panic
    /\ ev = Event("new", "", "")
    /\ pev = Event("new", "", "")
    /\ last_arrow_key = ""
    /\ arrow_key_count = 0
    /\ last_arrow_time = None
    /\ now = 0
    /\ renderer = NoRenderer
    /\ selected_note = NoNote

\* TextEditor::new, the clipboard holding one of clips
InitWith(clips) == \E clip \in clips : StartsAs(NewEditor(clip))

KeyEvent(key, ch, n, ok, lim) ==
    Becomes(handle_key_with_acceleration(Ed, key, ch, n, ok), Event("key", key, ch), lim)

\* App::load_selected_note and the other callers of set_text
SetText(texts, lim) ==
    /\ Running
    /\ \E t \in texts :
         Becomes(Ret(set_text(Ed, t), "none"), Event("set_text", "", ""), lim)

\* plain arrows, accelerated (App::handle_editor_key)
KeyArrow(lim) ==
    /\ Running
    /\ \E k \in ArrowKeys, n \in AccelSteps : KeyEvent(k, "", n, TRUE, lim)

KeyShiftArrow(lim) ==
    /\ Running
    /\ \E k \in ShiftArrowKeys : KeyEvent(k, "", 1, TRUE, lim)

KeyBlockArrow(lim) ==
    /\ Running
    /\ \E k \in BlockArrowKeys : KeyEvent(k, "", 1, TRUE, lim)

KeyWord(lim) ==
    /\ Running
    /\ \E k \in WordKeys : KeyEvent(k, "", 1, TRUE, lim)

KeyLine(lim) ==
    /\ Running
    /\ \E k \in LineKeys : KeyEvent(k, "", 1, TRUE, lim)

KeyChar(chars, lim) ==
    /\ Running
    /\ \E c \in chars : KeyEvent("Char", c, 1, TRUE, lim)

KeyEnter(lim) ==
    /\ Running
    /\ KeyEvent("Enter", "", 1, TRUE, lim)

KeyTab(lim) ==
    /\ Running
    /\ KeyEvent("Tab", "", 1, TRUE, lim)

KeyDelete(lim) ==
    /\ Running
    /\ \E k \in DeleteKeys : KeyEvent(k, "", 1, TRUE, lim)

KeySelectAll(lim) ==
    /\ Running
    /\ KeyEvent("CtrlA", "", 1, TRUE, lim)

KeyCut(lim) ==
    /\ Running
    /\ \E ok \in BOOLEAN : KeyEvent("CtrlX", "", 1, ok, lim)

KeyCopy(lim) ==
    /\ Running
    /\ \E ok \in BOOLEAN : KeyEvent("CtrlC", "", 1, ok, lim)

KeyPaste(lim) ==
    /\ Running
    /\ \E ok \in BOOLEAN : KeyEvent("CtrlV", "", 1, ok, lim)

\* Ctrl+Z, Ctrl+Y and every key no arm matches
KeyOther(lim) ==
    /\ Running
    /\ KeyEvent("Other", "", 1, TRUE, lim)

MouseDown(maxRow, maxCol, lim) ==
    /\ Running
    /\ \E row \in 0..maxRow, col \in 0..maxCol :
         Becomes(Ret(mouse_down(Ed, row, col), "none"), Event("mouse_down", "", ""), lim)

MouseDrag(maxRow, maxCol, lim) ==
    /\ Running
    /\ \E row \in 0..maxRow, col \in 0..maxCol :
         Becomes(Ret(mouse_drag(Ed, row, col), "none"), Event("mouse_drag", "", ""), lim)

MouseUp(lim) ==
    /\ Running
    /\ Becomes(Ret(mouse_up(Ed), "none"), Event("mouse_up", "", ""), lim)

-----------------------------------------------------------------------------
(* SpecMove: cursor movement over loaded notes *)

MoveMaxLen == 5
MoveMaxCol == 5
MoveClickRow == 1
MoveClickCol == 3

MoveTexts ==
    { <<>>,
      <<"a", NL, "a", "b", "a">>,
      <<"a", "b", NL, NL, "a">>,
      <<"a", SP, "b", NL>>,
      <<"E", "a", NL, "a">> }

MoveLim == Limits(MoveMaxLen, MoveMaxCol, {"Right"})

InitMove == InitWith({<<>>})

NextMove ==
    \/ SetText(MoveTexts, MoveLim)
    \/ KeyArrow(MoveLim)
    \/ KeyWord(MoveLim)
    \/ KeyLine(MoveLim)
    \/ KeyOther(MoveLim)
    \/ MouseDown(MoveClickRow, MoveClickCol, MoveLim)

SpecMove == InitMove /\ [][NextMove]_vars

-----------------------------------------------------------------------------
(* Spec: editing a note with the keyboard *)

MaxLen == 3
MaxCol == 3

Texts ==
    { <<>>,
      <<"a", "b">>,
      <<"a", NL, NL>>,
      <<"E", NL, "a">> }

Chars == {"a"}

Lim == Limits(MaxLen, MaxCol, {})

Init == InitWith({<<>>})

Next ==
    \/ SetText(Texts, Lim)
    \/ KeyArrow(Lim)
    \/ KeyShiftArrow(Lim)
    \/ KeyLine(Lim)
    \/ KeyChar(Chars, Lim)
    \/ KeyDelete(Lim)
    \/ KeySelectAll(Lim)

Spec == Init /\ [][Next]_vars

-----------------------------------------------------------------------------
(* SpecClip: selecting with Ctrl+A or the mouse, cutting, copying, pasting *)

ClipMaxLen == 3
ClipMaxCol == 2
ClipClickRow == 0
ClipClickCol == 1

ClipTexts ==
    { <<>>,
      <<"a", "b">>,
      <<"a", NL, "b">> }

\* what the system clipboard holds when the editor starts
Clips == { <<>>, <<"a">> }

ClipLim == Limits(ClipMaxLen, ClipMaxCol, {})

InitClip == InitWith(Clips)

NextClip ==
    \/ SetText(ClipTexts, ClipLim)
    \/ KeySelectAll(ClipLim)
    \/ KeyCut(ClipLim)
    \/ KeyCopy(ClipLim)
    \/ KeyPaste(ClipLim)
    \/ MouseDown(ClipClickRow, ClipClickCol, ClipLim)
    \/ MouseDrag(ClipClickRow, ClipClickCol, ClipLim)

SpecClip == InitClip /\ [][NextClip]_vars

-----------------------------------------------------------------------------
(* SpecCut: selecting with Shift+arrows or Ctrl+A, cutting and pasting a   *)
(* linear selection                                                        *)

CutMaxLen == 2
CutMaxCol == 2

CutTexts ==
    { <<>>,
      <<"a", "b">>,
      <<"a", NL>>,
      <<"E", "a">> }

CutLim == Limits(CutMaxLen, CutMaxCol, {})

NextCut ==
    \/ SetText(CutTexts, CutLim)
    \/ KeyArrow(CutLim)
    \/ KeyShiftArrow(CutLim)
    \/ KeySelectAll(CutLim)
    \/ KeyCut(CutLim)
    \/ KeyPaste(CutLim)

SpecCut == Init /\ [][NextCut]_vars

-----------------------------------------------------------------------------
(* SpecRect: dragging out a block selection and copying it *)

RectMaxLen == 6
RectMaxCol == 3
RectClickRow == 1
RectClickCol == 3

RectTexts ==
    { <<"a", "b", NL, "c", "d", NL>>,
      <<"a", "b", "c", NL>>,
      <<"a", "b">> }

RectLim == Limits(RectMaxLen, RectMaxCol, {})

NextRect ==
    \/ SetText(RectTexts, RectLim)
    \/ MouseDown(RectClickRow, RectClickCol, RectLim)
    \/ MouseDrag(RectClickRow, RectClickCol, RectLim)
    \/ KeyCopy(RectLim)

SpecRect == Init /\ [][NextRect]_vars

-----------------------------------------------------------------------------
(* SpecScroll: moving through a note taller than the viewport, and into    *)
(* the virtual space right of the line of an empty note                    *)

ScrollMaxLen == 18
ScrollMaxCol == 2
ScrollEmptyCol == 80

\* a note of 19 empty lines
ScrollTexts == { <<>>, AppendNewlines(<<>>, ScrollMaxLen) }

\* the tall note with columns up to ScrollMaxCol
ScrollLim == Limits(ScrollMaxLen, ScrollMaxCol, {})

\* the empty note with columns up to ScrollEmptyCol
ScrollEmptyLim == Limits(0, ScrollEmptyCol, {})

NextScroll ==
    \/ SetText(ScrollTexts, ScrollLim)
    \/ KeyArrow(ScrollLim)
    \/ KeyLine(ScrollLim)
    \/ KeyArrow(ScrollEmptyLim)
    \/ KeyLine(ScrollEmptyLim)

SpecScroll == Init /\ [][NextScroll]_vars

-----------------------------------------------------------------------------
(* SpecAccel: the key-repeat accelerator.  Arrow keys pass through         *)
(* update_arrow_acceleration, other keys go to the editor directly, and    *)
(* time passes between presses.                                            *)

AccelMaxCol == 12
AccelMaxCount == 9
AccelTick == 150
AccelMaxTime == 450

AccelLim == Limits(0, AccelMaxCol, {})

\* App::handle_editor_key, an unmodified arrow key
PressArrow(lim) ==
    /\ Running
    /\ \E k \in ArrowKeys :
         LET a == update_arrow_acceleration(last_arrow_key, arrow_key_count,
                                            last_arrow_time, now, k)
         IN  /\ a.arrow_key_count <= AccelMaxCount
             /\ last_arrow_key' = a.last_arrow_key
             /\ arrow_key_count' = a.arrow_key_count
             /\ last_arrow_time' = a.last_arrow_time
             /\ now' = now
             /\ renderer' = renderer
             /\ selected_note' = selected_note
             /\ EditorBecomes(handle_key_with_acceleration(Ed, k, "", a.acceleration, TRUE),
                              Event("key", k, ""), lim)

\* App::handle_editor_key, any other key
PressOther(lim) ==
    /\ Running
    /\ \E k \in LineKeys : KeyEvent(k, "", 1, TRUE, lim)

\* time passes
Tick ==
    /\ Running
    /\ now + AccelTick <= AccelMaxTime
    /\ now' = now + AccelTick
    /\ UNCHANGED <<rope, anchor, head, cursor_pos, scroll_x, scroll_y,
                   selection_anchor, virtual_cursor_col, block_selection,
                   potential_block_start, clipboard, ret, panic, ev, pev, Accel,
                   renderer, selected_note>>

NextAccel ==
    \/ PressArrow(AccelLim)
    \/ PressOther(AccelLim)
    \/ Tick

SpecAccel == Init /\ [][NextAccel]_vars

-----------------------------------------------------------------------------
(* SpecCol: one line of tabs, combining, narrow and wide characters, with  *)
(* or without its newline, the cursor moved along it and a block selection *)
(* started and extended from the keyboard.                                 *)

ColMaxLen == 2
ColMaxCol == 3

\* the lines of at most ColMaxLen characters, with and without a newline
ColTexts ==
    LET chars == {TAB, "Z", "a", "W"}
        lines == UNION { [1..n -> chars] : n \in 0..ColMaxLen }
    IN  lines \cup { Append(l, NL) : l \in lines }

ColLim == Limits(ColMaxLen + 1, ColMaxCol, {})

NextCol ==
    \/ SetText(ColTexts, ColLim)
    \/ KeyArrow(ColLim)
    \/ KeyBlockArrow(ColLim)

SpecCol == Init /\ [][NextCol]_vars

-----------------------------------------------------------------------------
(* SpecView: a viewport renderer of some size over a loaded note, scrolled *)
(* by its scroll operations and by follow_cursor.                          *)

ViewMaxLen == 27
ViewMaxSize == 2
ViewMaxPadding == 3
ViewMaxCursor == 2
ViewCursorRow == 25

ViewTexts == { <<>>, <<"a", NL, "a", "b", "a", "b", "a">>, AppendNewlines(<<>>, ViewMaxLen) }

ViewLim == Limits(ViewMaxLen, 0, {})

\* U16 - 1 and U16 stand for the large numbers
ViewAmounts == {1, U16 - 1}
ViewColumns == {0, ViewMaxCursor, U16}
ViewRows == {0, ViewMaxCursor, ViewCursorRow, U16}
ViewPaddings == {0, PADDING, ViewMaxPadding}

RendererStep(rd) ==
    /\ renderer' = rd
    /\ UNCHANGED <<rope, anchor, head, cursor_pos, scroll_x, scroll_y,
                   selection_anchor, virtual_cursor_col, block_selection,
                   potential_block_start, clipboard, ret, panic, ev, pev, Accel, now,
                   selected_note>>

\* EditPanelRenderer::new
NewRenderer ==
    /\ Running
    /\ ~renderer.some
    /\ \E w \in 1..ViewMaxSize, h \in 1..ViewMaxSize \cup {VIEWPORT_HEIGHT}, d \in BOOLEAN :
         RendererStep(RendererNew(w, h, d))

UpdateFromRope ==
    /\ Running
    /\ renderer.some /\ ~renderer.panic
    /\ RendererStep(update_from_rope(renderer, rope))

ScrollUp ==
    /\ Running
    /\ renderer.some /\ ~renderer.panic
    /\ \E n \in ViewAmounts : RendererStep(scroll_up(renderer, n))

ScrollDown ==
    /\ Running
    /\ renderer.some /\ ~renderer.panic
    /\ \E n \in ViewAmounts : RendererStep(scroll_down(renderer, n))

ScrollLeft ==
    /\ Running
    /\ renderer.some /\ ~renderer.panic
    /\ \E n \in ViewAmounts : RendererStep(scroll_left(renderer, n))

ScrollRight ==
    /\ Running
    /\ renderer.some /\ ~renderer.panic
    /\ \E n \in ViewAmounts : RendererStep(scroll_right(renderer, n))

FollowCursor ==
    /\ Running
    /\ renderer.some /\ ~renderer.panic
    /\ \E x \in ViewColumns, y \in ViewRows, p \in ViewPaddings :
         RendererStep(render_follow_cursor(renderer, x, y, p))

NextView ==
    \/ SetText(ViewTexts, ViewLim)
    \/ NewRenderer
    \/ UpdateFromRope
    \/ ScrollUp
    \/ ScrollDown
    \/ ScrollLeft
    \/ ScrollRight
    \/ FollowCursor

SpecView == Init /\ [][NextView]_vars

-----------------------------------------------------------------------------
(* SpecSave: a note is loaded into the editor, edited with the keyboard    *)
(* and clicked with the mouse; App saves the text after a key the editor   *)
(* reports as a modification.                                              *)

SaveMaxLen == 2
SaveMaxCol == 1
SaveMaxRow == 1

SaveTexts == { <<>>, <<"a">>, <<"a", NL>> }

SaveLim == Limits(SaveMaxLen, SaveMaxCol, {})

\* the keys App::handle_editor_key hands to TextEditor::handle_key
SaveKeys == {"Char", "Enter", "Backspace", "Delete", "CtrlV", "Home"}

\* App::auto_save_current_note: the note takes the editor's text and is
\* written to the store; when the write fails the note has been taken out of
\* selected_note and the error is returned
auto_save_current_note(note, text, stored) ==
    IF ~note.some THEN [note |-> note, ret |-> "ok"]
    ELSE IF stored THEN [note |-> [some |-> TRUE, content |-> text], ret |-> "ok"]
    ELSE [note |-> NoNote, ret |-> "err"]

\* App::load_selected_note
LoadNote ==
    /\ Running
    /\ \E t \in SaveTexts :
         /\ EditorBecomes(Ret(set_text(Ed, t), "none"), Event("set_text", "", ""), SaveLim)
         /\ selected_note' = [some |-> TRUE, content |-> t]
         /\ UNCHANGED <<Accel, now, renderer>>

\* App::handle_editor_key, the arm of the keys passed to handle_key
EditorKey ==
    /\ Running
    /\ selected_note.some
    /\ \E k \in SaveKeys, ok \in BOOLEAN, stored \in BOOLEAN :
         LET e == handle_key_with_acceleration(Ed, k, "a", 1, ok)
             saved == auto_save_current_note(selected_note, e.rope, stored)
         IN  /\ UNCHANGED <<Accel, now, renderer>>
             /\ IF ~e.panic /\ e.ret = "true"
                  THEN /\ EditorBecomes(IF saved.ret = "err" THEN Ret(e, "err") ELSE e,
                                        Event("key", k, "a"), SaveLim)
                       /\ selected_note' = saved.note
                  ELSE /\ stored
                       /\ EditorBecomes(e, Event("key", k, "a"), SaveLim)
                       /\ selected_note' = selected_note

\* App::handle_mouse, the left button pressed in the editor area
ClickEditor ==
    /\ selected_note.some
    /\ MouseDown(SaveMaxRow, SaveMaxCol, SaveLim)

NextSave ==
    \/ LoadNote
    \/ EditorKey
    \/ ClickEditor

SpecSave == Init /\ [][NextSave]_vars

-----------------------------------------------------------------------------
(* Positions read off a state *)

LineOfPos(r, pos) == char_to_line(r, pos)

ColOfPos(r, pos) == pos - line_to_char(r, char_to_line(r, pos))

LastLine(r) == len_lines(r) - 1

-----------------------------------------------------------------------------
(* Cursor movement: the virtual column and the document edges (SpecMove) *)

\* C4: after a horizontal move that leaves the cursor inside the real text of
\* its line (Home, End, word-left, word-right; Left and Right landing at a
\* column <= the effective length) the virtual column is none; it becomes
\* set only by a Right move past the line end, and a set virtual column
\* survives only vertical moves.
C4_VirtualColumnOnlyPastLineEnd ==
    [][ (ev'.op = "key" /\ ev'.key \in ArrowKeys \cup WordKeys \cup LineKeys
           /\ ~panic') =>
          LET eff == LineEff(rope', LineOfPos(rope', head'))
              vc == virtual_cursor_col'
          IN  /\ ev'.key \in {"Home", "End", "CtrlLeft", "CtrlRight"} => vc = None
              /\ (ev'.key \in {"Left", "Right"} /\ vc # None) => vc > eff
              /\ (virtual_cursor_col = None /\ vc # None) => ev'.key = "Right"
              /\ (virtual_cursor_col # None /\ vc = virtual_cursor_col)
                     => ev'.key \in {"Up", "Down", "PageUp", "PageDown"} ]_vars

\* C5: a Right move has left the virtual column v past the end of a short
\* line; the Down move that follows lands the head at column min(v, L) of
\* the line it reaches, L that line's effective length, and the virtual
\* column is still v.
C5_VirtualColumnSurvivesDown ==
    [][ ( /\ ev.op = "key" /\ ev.key = "Right"
          /\ virtual_cursor_col # None
          /\ virtual_cursor_col > LineEff(rope, LineOfPos(rope, head))
          /\ LineOfPos(rope, head) < LastLine(rope)
          /\ ev'.op = "key" /\ ev'.key = "Down" )
        => LET target == LineOfPos(rope', head')
           IN  /\ ~panic'
               /\ rope' = rope
               /\ target > LineOfPos(rope, head)
               /\ ColOfPos(rope', head') = Min(virtual_cursor_col, LineEff(rope, target))
               /\ anchor' = head'
               /\ virtual_cursor_col' = virtual_cursor_col ]_vars

\* C5's case: Right past the end of line 0 of a two-line note, then Down onto
\* the longer line 1, the head inside that line at the remembered column
C5_Witness ==
    /\ ~panic
    /\ pev.op = "key" /\ pev.key = "Right"
    /\ ev.op = "key" /\ ev.key = "Down"
    /\ len_lines(rope) = 2
    /\ LineOfPos(rope, head) = 1
    /\ virtual_cursor_col > LineEff(rope, 0)
    /\ LineEff(rope, 1) > virtual_cursor_col
    /\ ColOfPos(rope, head) = virtual_cursor_col

\* C6: movement saturates at the edges of the document for every
\* acceleration step: Left at position 0 leaves the head at 0, Right at the
\* end of the document leaves it at the length, Up on the first line and Down
\* on the last line leave it unchanged, and no arrow key fails.
C6_MovementSaturates ==
    [][ (ev'.op = "key" /\ ev'.key \in ArrowKeys) =>
          /\ ~panic' /\ ret' # "err"
          /\ head' \in 0..Len(rope')
          /\ (ev'.key = "Left" /\ head = 0) => head' = 0
          /\ (ev'.key = "Right" /\ head = Len(rope)) => head' = Len(rope)
          /\ (ev'.key = "Up" /\ LineOfPos(rope, head) = 0) => head' = head
          /\ (ev'.key = "Down" /\ LineOfPos(rope, head) = LastLine(rope))
                 => head' = head ]_vars

\* C7: plain Left and Right never change the line of the head; Left at the
\* first column leaves the head at the line start; Right at or past the end
\* of the line leaves the head at the line's effective end while the virtual
\* column grows.
C7_HorizontalStaysOnLine ==
    [][ (ev'.op = "key" /\ ev'.key \in {"Left", "Right"}) =>
          LET line == LineOfPos(rope, head)
              line_start == line_to_char(rope, line)
              line_end == line_start + LineEff(rope, line)
          IN  /\ ~panic'
              /\ LineOfPos(rope', head') = line
              /\ (ev'.key = "Left" /\ head = line_start) => head' = line_start
              /\ (ev'.key = "Right" /\ head = line_end)
                     => /\ head' = line_end
                        /\ virtual_cursor_col' > LineEff(rope, line) ]_vars

-----------------------------------------------------------------------------
(* Editing: offsets, the collapsed selection, insertion and deletion (Spec) *)

TypingKeys == {"Char", "Enter", "Tab"}

\* C1: after any sequence of operations the head, the anchor and the stored
\* selection_anchor all lie in 0..length of the document.
C1_OffsetsInDocument ==
    ~panic =>
        /\ head \in 0..Len(rope)
        /\ anchor \in 0..Len(rope)
        /\ selection_anchor # None => selection_anchor \in 0..Len(rope)

\* C3: after a plain arrow, Ctrl+Left/Right without Shift, Home, End, PageUp,
\* PageDown, an insertion or a deletion the stored selection_anchor is none
\* and the selection's anchor equals its head.
C3_SelectionCollapsed ==
    ( /\ ~panic
      /\ ev.op = "key"
      /\ \/ ev.key \in ArrowKeys \cup LineKeys \cup TypingKeys
         \/ ev.key \in {"CtrlLeft", "CtrlRight"}
         \/ ev.key \in DeleteKeys /\ ret = "true" )
    => /\ selection_anchor = None
       /\ anchor = head

\* C8: typing ch with the virtual column v past the effective length L of the
\* head's line puts v - L spaces and then ch at the end of that line's text,
\* leaves the rest of the document as it was, and leaves the head right
\* after ch, at column v + 1, the virtual column none.
C8_InsertFillsVirtualGap ==
    [][ ( /\ ev'.op = "key" /\ ev'.key \in TypingKeys
          /\ virtual_cursor_col # None
          /\ head <= Len(rope)
          /\ virtual_cursor_col > LineEff(rope, LineOfPos(rope, head)) )
        => LET line == LineOfPos(rope, head)
               line_start == line_to_char(rope, line)
               L == LineEff(rope, line)
               v == virtual_cursor_col
               ch == TypedChar(ev'.key, ev'.ch)
           IN  /\ ~panic'
               /\ rope' = SubSeq(rope, 1, line_start + L)
                            \o Spaces(v - L) \o <<ch>>
                            \o SubSeq(rope, line_start + L + 1, Len(rope))
               /\ head' = line_start + v + 1
               /\ anchor' = head'
               /\ virtual_cursor_col' = None ]_vars

\* C9: typing ch with no virtual gap, the head at h, gives the document
\* old[0,h) + ch + old[h,len) and the head h + 1, whatever the selection was.
C9_InsertAtHead ==
    [][ ( /\ ev'.op = "key" /\ ev'.key \in TypingKeys
          /\ head <= Len(rope)
          /\ \/ virtual_cursor_col = None
             \/ virtual_cursor_col <= LineEff(rope, LineOfPos(rope, head)) )
        => /\ ~panic'
           /\ rope' = SubSeq(rope, 1, head) \o <<TypedChar(ev'.key, ev'.ch)>>
                        \o SubSeq(rope, head + 1, Len(rope))
           /\ head' = head + 1 ]_vars

RemoveAt(s, i) == SubSeq(s, 1, i) \o SubSeq(s, i + 2, Len(s))

\* C11: a delete that reports a modification removes exactly the character
\* next to the head and nothing else: Backspace with the head at h > 0
\* removes the character at h - 1 and leaves the head at h - 1, Delete with
\* the head at h < length removes the character at h and leaves the head at
\* h, whatever the selection is.
C11_DeleteRemovesCharAtHead ==
    [][ (ev'.op = "key" /\ ev'.key \in DeleteKeys /\ ~panic' /\ ret' = "true")
        => /\ (ev'.key = "Backspace" /\ head > 0 /\ head <= Len(rope))
                 => /\ rope' = RemoveAt(rope, head - 1)
                    /\ head' = head - 1
           /\ (ev'.key = "Delete" /\ head < Len(rope))
                 => /\ rope' = RemoveAt(rope, head)
                    /\ head' = head ]_vars

\* C12: in a run of consecutive Shift+arrow events that starts with no
\* anchor, the first event stores the head offset it started from as the
\* anchor, and every later event of the run keeps that anchor and the text, so
\* that only the head can move.
C12_ShiftRunKeepsAnchor ==
    [][ (ev'.op = "key" /\ ev'.key \in ShiftArrowKeys /\ ~panic')
        => /\ selection_anchor = None
                => /\ selection_anchor' = head
                   /\ anchor' \in {head, anchor}
                   /\ head' # head => anchor' = head
           /\ (selection_anchor # None /\ ev.op = "key" /\ ev.key \in ShiftArrowKeys)
                => /\ selection_anchor' = selection_anchor
                   /\ anchor' \in {selection_anchor, anchor}
                   /\ rope' = rope ]_vars

ShiftRun == 3

RECURSIVE Pressed(_, _, _)
\* the editor after n more events of key
Pressed(e, key, n) ==
    IF n = 0 THEN e
    ELSE handle_key_with_acceleration(Pressed(e, key, n - 1), key, "", 1, TRUE)

\* C36: Shift+Right extends the selection one character per event: from a
\* collapsed cursor at offset p, n consecutive Shift+Right events select
\* [p, min(p + n, len)) with anchor p, and n consecutive Shift+Left events
\* select [max(p - n, 0), p) with anchor p.
C36_ShiftExtendsPerEvent ==
    (Running /\ anchor = head /\ head <= Len(rope))
        => \A n \in 1..ShiftRun :
             /\ Pressed(Ed, "ShiftRight", n).anchor = head
             /\ Pressed(Ed, "ShiftRight", n).head = Min(head + n, Len(rope))
             /\ Pressed(Ed, "ShiftLeft", n).anchor = head
             /\ Pressed(Ed, "ShiftLeft", n).head = SatSub(head, n)

\* C38: cursor_pos is consistent with the head after every key event: its
\* row is the line that contains the head, and its column is the virtual
\* column when one is set and the head's column within its line otherwise.
C38_CursorPosFollowsHead ==
    [][ (ev'.op = "key" /\ ~panic' /\ head' <= Len(rope'))
        => LET line == char_to_line(rope', head')
               col == head' - line_to_char(rope', line)
           IN  /\ cursor_pos'.row = line
               /\ cursor_pos'.col = IF virtual_cursor_col' # None
                                    THEN virtual_cursor_col' ELSE col ]_vars

-----------------------------------------------------------------------------
(* Cutting and pasting a linear selection (SpecCut) *)

\* C13: a cut of a non-empty linear selection [from, to) that completes puts
\* old[from, to) on the clipboard, leaves old[0, from) + old[to, len) as the
\* document, collapses the selection to from with no anchor and reports a
\* modification; a cut with an empty selection and no block selection changes
\* nothing and reports no modification.
C13_CutLinearSelection ==
    [][ ( /\ ev'.op = "key" /\ ev'.key = "CtrlX"
          /\ ~block_selection.some
          /\ ~panic' /\ ret' # "err" )
        => IF RangeTo(Ed) > RangeFrom(Ed)
           THEN /\ clipboard' = SubSeq(rope, RangeFrom(Ed) + 1, RangeTo(Ed))
                /\ rope' = SubSeq(rope, 1, RangeFrom(Ed))
                             \o SubSeq(rope, RangeTo(Ed) + 1, Len(rope))
                /\ head' = RangeFrom(Ed)
                /\ anchor' = RangeFrom(Ed)
                /\ selection_anchor' = None
                /\ ret' = "true"
           ELSE /\ rope' = rope
                /\ clipboard' = clipboard
                /\ head' = head
                /\ anchor' = anchor
                /\ ret' = "false" ]_vars

\* the editor after Ctrl+X and then Ctrl+V, the clipboard utility running
CutThenPaste(e) ==
    LET c == handle_key_with_acceleration(e, "CtrlX", "", 1, TRUE)
    IN  IF c.panic THEN c ELSE handle_key_with_acceleration(c, "CtrlV", "", 1, TRUE)

\* C14: in every state the editor can reach with a non-empty linear selection
\* (by movement, Shift+arrows or select-all), cutting and then pasting at once
\* gives back the text of the document.
C14_CutPasteRoundTrip ==
    (Running /\ ~block_selection.some /\ RangeTo(Ed) > RangeFrom(Ed))
        => /\ ~CutThenPaste(Ed).panic
           /\ CutThenPaste(Ed).rope = rope

\* C15: a paste with no block selection that read the clipboard replaces the
\* linear selection [from, to) (from = to = head when it is collapsed) by the
\* clipboard text and nothing else, and leaves the head just after the text
\* pasted, at from + length(clipboard).
C15_PasteReplacesSelection ==
    [][ ( /\ ev'.op = "key" /\ ev'.key = "CtrlV"
          /\ ~block_selection.some
          /\ ~panic' /\ ret' = "true" )
        => /\ rope' = SubSeq(rope, 1, RangeFrom(Ed)) \o clipboard
                        \o SubSeq(rope, RangeTo(Ed) + 1, Len(rope))
           /\ head' = RangeFrom(Ed) + Len(clipboard) ]_vars

-----------------------------------------------------------------------------
(* Clipboard failures (SpecClip) *)

\* C16: in every state the editor can reach, a paste whose clipboard read
\* fails returns Ok(false) and leaves every field of the editor (document,
\* selection, stored anchor, cursor position, virtual column, block selection,
\* scroll offsets) and the clipboard as they were.
C16_FailedPasteIsNoOp ==
    Running => handle_key_with_acceleration(Ed, "CtrlV", "", 1, FALSE) = Ret(Ed, "false")

\* C16's case: a paste has just failed to read a clipboard that holds text,
\* over a selection a paste would have replaced
C16_Witness ==
    /\ ~panic
    /\ ev.op = "key" /\ ev.key = "CtrlV"
    /\ ret = "false"
    /\ clipboard # <<>>
    /\ selection_anchor # None
    /\ RangeTo(Ed) > RangeFrom(Ed)

\* C17: in every state the editor can reach, a copy whose clipboard write
\* fails returns no error and leaves the editor and the clipboard as they
\* were, and a cut whose clipboard write fails returns no error either.
C17_FailedCopyIsSilent ==
    Running
        => /\ handle_key_with_acceleration(Ed, "CtrlC", "", 1, FALSE) = Ret(Ed, "false")
           /\ handle_key_with_acceleration(Ed, "CtrlX", "", 1, FALSE).ret # "err"

-----------------------------------------------------------------------------
(* Copying a block selection (SpecRect) *)

\* the rows of block selection b, top to bottom
BlockRows(b) == BlockMinLine(b)..BlockMaxLine(b)

\* every character of line text l is one column wide
Narrow(l) == \A i \in 1..Len(l) : l[i] # TAB /\ UnicodeWidth(l[i]) = 1

\* line row of rope r exists, is made of one-column characters and has a
\* character in every column up to col
LineContains(r, row, col) ==
    /\ row < len_lines(r)
    /\ Narrow(LineText(r, row))
    /\ Len(LineText(r, row)) > col

\* C18: a copy of a block selection whose rows all have text in every column
\* of the rectangle puts on the clipboard, for each row from the top to the
\* bottom, the characters in columns minVisualCol..maxVisualCol, both
\* included, the rows joined by line feeds with none at the end ("ab\ncd\n"
\* with the block from (0,0) to (1,1) gives "ab\ncd").
C18_BlockCopyIncludesCorners ==
    [][ ( /\ ev'.op = "key" /\ ev'.key = "CtrlC"
          /\ block_selection.some
          /\ ~panic' /\ ret' # "err"
          /\ \A row \in BlockRows(block_selection) :
                LineContains(rope, row, BlockMaxCol(block_selection)) )
        => clipboard' =
             JoinLines([k \in 1..Cardinality(BlockRows(block_selection)) |->
                          SubSeq(LineText(rope, BlockMinLine(block_selection) + k - 1),
                                 BlockMinCol(block_selection) + 1,
                                 BlockMaxCol(block_selection) + 1)]) ]_vars

RECURSIVE SplitRows(_)
\* the rows of a clipboard text: the pieces between its line feeds, empty
\* pieces kept
SplitRows(s) ==
    IF \E k \in 1..Len(s) : s[k] = NL
    THEN LET k == CHOOSE k \in 1..Len(s) : s[k] = NL /\ \A j \in 1..(k - 1) : s[j] # NL
         IN  <<SubSeq(s, 1, k - 1)>> \o SplitRows(SubSeq(s, k + 1, Len(s)))
    ELSE <<s>>

\* C19: a copy of a block selection over lines of one-column characters puts
\* one row per row of the rectangle on the clipboard, each of exactly
\* maxVisualCol - minVisualCol characters, also for lines that end inside or
\* before the rectangle, empty lines and rows past the document end.
C19_BlockCopyRowsPadded ==
    [][ ( /\ ev'.op = "key" /\ ev'.key = "CtrlC"
          /\ block_selection.some
          /\ ~panic' /\ ret' # "err"
          /\ \A row \in BlockRows(block_selection) : Narrow(LineText(rope, row)) )
        => /\ Len(SplitRows(clipboard')) = Cardinality(BlockRows(block_selection))
           /\ \A k \in 1..Len(SplitRows(clipboard')) :
                Len(SplitRows(clipboard')[k])
                  = BlockMaxCol(block_selection) - BlockMinCol(block_selection) ]_vars

-----------------------------------------------------------------------------
(* Pasting over a block selection (SpecRect) *)

\* the clipboard line that row number i (0-based) of a block receives
PasteLineFor(paste_lines, i) ==
    IF i < Len(paste_lines) THEN paste_lines[i + 1]
    ELSE IF Len(paste_lines) = 1 THEN paste_lines[1]
    ELSE <<>>

\* line l with text t inserted at the character index of visual column v
InsertAtColumn(l, v, t) ==
    LET k == visual_col_to_char_idx(l, v)
    IN  SubSeq(l, 1, k) \o t \o SubSeq(l, k + 1, Len(l))

RECURSIVE BlockPasted(_, _, _, _)
\* rope r from line row on, each line in a row of block b holding its
\* clipboard line at the block's left visual column
BlockPasted(r, b, row, paste_lines) ==
    IF row >= len_lines(r) THEN <<>>
    ELSE (IF row \in BlockRows(b)
          THEN InsertAtColumn(rope_line(r, row), BlockMinCol(b),
                              PasteLineFor(paste_lines, row - BlockMinLine(b)))
          ELSE rope_line(r, row))
         \o BlockPasted(r, b, row + 1, paste_lines)

\* C21: in every state the editor can reach with a block selection, a paste
\* inserts into each existing row of the block its clipboard line (the single
\* line for every row, nothing when a multi-line clipboard has run out) at the
\* character index of the block's left visual column, and leaves all other
\* text as it was.
C21_BlockPasteInsertsPerRow ==
    (Running /\ block_selection.some)
        => /\ ~paste(Ed, TRUE).panic
           /\ paste(Ed, TRUE).rope
                = BlockPasted(rope, block_selection, 0, SplitLines(clipboard))

-----------------------------------------------------------------------------
(* The life of a block selection (SpecRect) *)

\* the keys that are no block extension: movement, typing, cut and paste
BlockEndingKeys ==
    ArrowKeys \cup ShiftArrowKeys \cup {"CtrlLeft", "CtrlRight"} \cup LineKeys
      \cup {"Char", "Enter"} \cup DeleteKeys \cup {"CtrlX", "CtrlV"}

\* C22: in every state the editor can reach with a block selection, any key
\* that is not a block extension (plain and Shift arrows, Ctrl+Left/Right,
\* Home, End, PageUp, PageDown, a character, Enter, Backspace, Delete, cut,
\* paste) leaves the editor without a block selection.
C22_BlockEndsOnOtherKey ==
    (Running /\ block_selection.some)
        => \A key \in BlockEndingKeys :
              LET after == handle_key_with_acceleration(Ed, key, "a", 1, TRUE)
              IN  (~after.panic /\ after.ret # "err") => ~after.block_selection.some

BlockRun == 2

\* C37: block-extension keys accumulate: n consecutive Alt+Shift+Down
\* events, from a head on line l of a document with at least n more lines
\* and no block selection, give a block that spans lines l..l+n, its anchor
\* still on line l.
C37_BlockExtensionAccumulates ==
    LET l == char_to_line(rope, head)
    IN  (Running /\ ~block_selection.some /\ head <= Len(rope))
            => \A n \in 1..BlockRun :
                 l + n <= len_lines(rope) - 1
                    => LET b == Pressed(Ed, "AltShiftDown", n).block_selection
                       IN  /\ b.some
                           /\ b.anchor_line = l
                           /\ b.cursor_line = l + n

-----------------------------------------------------------------------------
(* Scrolling (SpecScroll) *)

\* TextEditor::get_cursor_screen_position, without the saturation
ScreenRow == cursor_pos.row - scroll_y
ScreenCol ==
    (IF virtual_cursor_col # None THEN virtual_cursor_col ELSE cursor_pos.col) - scroll_x

\* C23: after a cursor-moving key the cursor's screen position is inside the
\* viewport, rows 0..19 and columns 0..79, and inside the padded area, rows
\* 2..17 and columns 2..77, on an axis that is scrolled.
C23_CursorInsideViewport ==
    [][ ( /\ ev'.op = "key"
          /\ ev'.key \in ArrowKeys \cup LineKeys
          /\ ~panic' )
        => /\ ScreenRow' \in 0..(VIEWPORT_HEIGHT - 1)
           /\ ScreenCol' \in 0..(VIEWPORT_WIDTH - 1)
           /\ scroll_y' > 0
                => ScreenRow' \in PADDING..(VIEWPORT_HEIGHT - PADDING - 1)
           /\ scroll_x' > 0
                => ScreenCol' \in PADDING..(VIEWPORT_WIDTH - PADDING - 1) ]_vars

\* C24: the scroll offsets stay within the content: scroll_y is at most the
\* number of lines less the viewport height, scroll_x at most the width of
\* the widest line less the viewport width, and neither is negative.
C24_ScrollWithinContent ==
    LET widths == {char_idx_to_visual_col(LineText(rope, l), Len(LineText(rope, l))) :
                     l \in 0..(len_lines(rope) - 1)}
        longest == CHOOSE w \in widths : \A v \in widths : v <= w
    IN  Running
            => /\ scroll_y \in 0..SatSub(len_lines(rope), VIEWPORT_HEIGHT)
               /\ scroll_x \in 0..SatSub(longest, VIEWPORT_WIDTH)

-----------------------------------------------------------------------------
(* Loading a note (SpecScroll) *)

\* C25: set_text replaces the document and the cursor state wholesale: the
\* document is the given text, head and anchor are 0, the cursor position is
\* (0, 0), both scroll offsets are 0, and the stored selection anchor, the
\* virtual column, the block selection and the pending block start are none.
C25_SetTextResetsState ==
    [][ ev'.op = "set_text"
        => /\ rope' \in ScrollTexts
           /\ anchor' = 0 /\ head' = 0
           /\ cursor_pos' = [row |-> 0, col |-> 0]
           /\ scroll_x' = 0 /\ scroll_y' = 0
           /\ selection_anchor' = None
           /\ virtual_cursor_col' = None
           /\ block_selection' = NoBlock
           /\ potential_block_start' = NoStart ]_vars

-----------------------------------------------------------------------------
(* Key repeat (SpecAccel) *)

\* the step multiplier a press of arrow key k would be processed with now
StepNow(k) ==
    update_arrow_acceleration(last_arrow_key, arrow_key_count,
                              last_arrow_time, now, k).acceleration

\* C27: the accelerator resets as soon as the run of one key is broken: when
\* the last key pressed is a different key than arrow key k, or 300 ms or more
\* have passed since the last arrow press, the next press of k is processed
\* with step multiplier 1.
C27_AccelerationResets ==
    (Running /\ ev.op = "key")
        => \A k \in ArrowKeys :
             (ev.key # k \/ now - last_arrow_time >= ACCEL_WINDOW) => StepNow(k) = 1

AccelRun == 17

RECURSIVE HeldFor(_, _)
\* the key-repeat fields and the step multiplier of the last press after n
\* more presses of arrow key k, all made at the present time
HeldFor(k, n) ==
    IF n = 0
    THEN [last_arrow_key |-> last_arrow_key, arrow_key_count |-> arrow_key_count,
          last_arrow_time |-> last_arrow_time, acceleration |-> 0]
    ELSE LET a == HeldFor(k, n - 1)
         IN  update_arrow_acceleration(a.last_arrow_key, a.arrow_key_count,
                                       a.last_arrow_time, now, k)

\* C35: while the same arrow key is pressed repeatedly with gaps under 300
\* ms, the step multiplier is 1 for presses 1-3 of the run, 3 for presses
\* 4-8, 6 for presses 9-15 and 10 from press 16 on; so it never decreases and
\* is always one of 1, 3, 6, 10.  A run of arrow key k starts in any state
\* in which the last key pressed is not k or the last arrow press is 300 ms
\* or more ago.
C35_AccelerationEscalates ==
    Running
        => \A k \in ArrowKeys :
             (ev.key # k \/ now - last_arrow_time >= ACCEL_WINDOW)
                => \A n \in 1..AccelRun :
                     HeldFor(k, n).acceleration
                        = IF n <= 3 THEN 1 ELSE IF n <= 8 THEN 3 ELSE IF n <= 15 THEN 6 ELSE 10

-----------------------------------------------------------------------------
(* Visual columns (SpecCol) *)

\* visual_col_to_char_idx after char_idx_to_visual_col
RoundTrip(l, i) == visual_col_to_char_idx(l, char_idx_to_visual_col(l, i))

\* C26: for every line and every character index i of it, from 0 to the
\* line's effective length, converting i to a visual column and back gives an
\* index that is at most i, and exactly i when the line has no tab and only
\* characters of width 1.
C26_ColumnRoundTrip ==
    \A line \in 0..(len_lines(rope) - 1) :
      LET l == rope_line(rope, line)
          narrow == \A k \in 1..Len(l) :
                      l[k] = NL \/ (l[k] # TAB /\ UnicodeWidth(l[k]) = 1)
      IN  \A i \in 0..effective_len(l) :
            /\ RoundTrip(l, i) <= i
            /\ narrow => RoundTrip(l, i) = i

\* the cursor was moved along a line that holds a tab or a wide character
\* and a combining character, and the round trip of the head's index ends
\* before the head
C26_Witness ==
    /\ ev.op = "key"
    /\ char_to_line(rope, head) = 0
    /\ \E k \in 1..Len(rope) : rope[k] \in {TAB, "W"}
    /\ \E k \in 1..Len(rope) : rope[k] = "Z"
    /\ RoundTrip(rope_line(rope, 0), head) < head

\* C29: a block selection the editor creates at the head's (line, column)
\* has its anchor at (line, column) and its anchor's visual column is
\* char_idx_to_visual_col of that line at that column; so are its cursor and
\* the cursor's visual column, as long as the key that created it has not
\* moved the cursor on.
C29_NewBlockAtVisualColumn ==
    [][ ( /\ ev'.op = "key" /\ ev'.key \in BlockArrowKeys
          /\ ~block_selection.some /\ head <= Len(rope) /\ ~panic' )
        => LET line == char_to_line(rope, head)
               col == head - line_to_char(rope, line)
               visual_col == char_idx_to_visual_col(rope_line(rope, line), col)
               b == block_selection'
           IN  /\ b.some
               /\ b.anchor_line = line /\ b.anchor_col = col
               /\ b.anchor_visual_col = visual_col
               /\ (b.cursor_line = line /\ b.cursor_col = col)
                     => b.cursor_visual_col = visual_col ]_vars

\* C30: for a block selection that starts inside the document, to_selection
\* yields exactly one range per document line from the block's first line to
\* its last line or the document's last line, whichever comes first, in line
\* order; each range [s, e] lies inside its own line, line_start <= s <= e <=
\* line_start + effective line length; lines past the document end
\* contribute no range.
C30_OneRangePerLine ==
    LET b == block_selection
        last == Min(BlockMaxLine(b), len_lines(rope) - 1)
        sel == to_selection(b, rope)
    IN  (b.some /\ BlockMinLine(b) <= last)
            => /\ ~sel.panic
               /\ Len(sel.ranges) = last - BlockMinLine(b) + 1
               /\ \A k \in 1..Len(sel.ranges) :
                    LET line == BlockMinLine(b) + k - 1
                        line_start == line_to_char(rope, line)
                    IN  /\ line_start <= sel.ranges[k].anchor
                        /\ sel.ranges[k].anchor <= sel.ranges[k].head
                        /\ sel.ranges[k].head <= line_start + LineEff(rope, line)

\* a block selection extended down from the keyboard, over two lines of a
\* document that holds a tab, whose range on the first line is not empty
C30_Witness ==
    /\ ev.op = "key" /\ ev.key = "AltShiftDown"
    /\ block_selection.some
    /\ BlockMinLine(block_selection) = 0
    /\ BlockMaxLine(block_selection) = 1
    /\ len_lines(rope) = 2
    /\ \E k \in 1..Len(rope) : rope[k] = TAB
    /\ \E rg \in {to_selection(block_selection, rope).ranges[1]} : rg.anchor < rg.head

-----------------------------------------------------------------------------
(* Block selections over lines the document no longer has (SpecRect) *)

\* C31: a block selection that refers to lines the document no longer has
\* is handled without any out-of-range access: to_selection returns offsets
\* within [0, document length], a single zero-width point when no line of
\* the block is a line of the document, and block copy, block cut and block
\* paste complete.
C31_StaleBlockInRange ==
    LET b == block_selection
        sel == to_selection(b, rope)
    IN  (Running /\ b.some)
            => /\ ~sel.panic
               /\ \A k \in 1..Len(sel.ranges) :
                    /\ sel.ranges[k].anchor \in 0..Len(rope)
                    /\ sel.ranges[k].head \in 0..Len(rope)
               /\ BlockMinLine(b) >= len_lines(rope)
                    => /\ Len(sel.ranges) = 1
                       /\ sel.ranges[1].anchor = sel.ranges[1].head
               /\ ~copy_selection(Ed, TRUE).panic
               /\ ~cut_selection(Ed, TRUE).panic
               /\ ~paste(Ed, TRUE).panic

-----------------------------------------------------------------------------
(* The viewport renderer (SpecView) *)

\* C32: when the cursor row is at or below the bottom margin, cursor_y >=
\* scroll_y + height - padding, follow_cursor raises scroll_y just enough to
\* restore the margin: the new scroll_y is cursor_y - (height - padding - 1).
\* This is asked of the editor's follow_cursor, with its viewport of 20 rows
\* and padding 2, and of the renderer's, for rows that fit a u16.
C32_BottomMarginRestored ==
    \A y \in ViewRows \ {U16} :
        /\ y >= scroll_y + VIEWPORT_HEIGHT - PADDING
             => follow_cursor(Ed, 0, y, PADDING).scroll_y
                    = y - (VIEWPORT_HEIGHT - PADDING - 1)
        /\ \A p \in ViewPaddings :
             ( /\ renderer.some /\ ~renderer.panic
               /\ p < renderer.viewport_height
               /\ y >= renderer.scroll_y + renderer.viewport_height - p )
             => render_follow_cursor(renderer, 0, y, p).scroll_y
                    = y - (renderer.viewport_height - p - 1)

\* the viewport of renderer rd contains the cell (x, y)
Contains(rd, x, y) ==
    /\ rd.scroll_y <= y /\ y < rd.scroll_y + rd.viewport_height
    /\ rd.scroll_x <= x /\ x < rd.scroll_x + rd.viewport_width

\* C33: after the renderer's follow_cursor returns, the viewport contains
\* the cursor on both axes, for every previous scroll position, content
\* size, padding and viewport size of at least 1x1.
C33_ViewportContainsCursor ==
    (renderer.some /\ ~renderer.panic)
        => \A x \in ViewColumns, y \in ViewRows, p \in ViewPaddings :
             LET rd == render_follow_cursor(renderer, x, y, p)
             IN  ~rd.panic => Contains(rd, x, y)

\* C34: the renderer's scroll operations saturate at the content bounds:
\* scroll_up and scroll_left stop at 0, scroll_down(n) sets scroll_y to
\* min(scroll_y + n, max(0, content_height - viewport_height)) and
\* scroll_right(n) sets scroll_x to min(scroll_x + n, max(0, W -
\* viewport_width)), W the width of the longest line of the content.
C34_ScrollSaturates ==
    LET rd == renderer
        widths == {Len(rd.buffer[i]) : i \in 1..Len(rd.buffer)} \cup {0}
        W == CHOOSE w \in widths : \A v \in widths : v <= w
    IN  (rd.some /\ ~rd.panic)
            => \A n \in ViewAmounts :
                 /\ scroll_up(rd, n).scroll_y = SatSub(rd.scroll_y, n)
                 /\ scroll_left(rd, n).scroll_x = SatSub(rd.scroll_x, n)
                 /\ ~scroll_down(rd, n).panic
                 /\ scroll_down(rd, n).scroll_y
                      = Min(rd.scroll_y + n, SatSub(Len(rd.buffer), rd.viewport_height))
                 /\ ~scroll_right(rd, n).panic
                 /\ scroll_right(rd, n).scroll_x
                      = Min(rd.scroll_x + n, SatSub(W, rd.viewport_width))

-----------------------------------------------------------------------------
(* Vertical movement there and back (SpecMove) *)

\* the editor after key first and then key second
Then(first, second) == handle_key(handle_key(Ed, first, "", TRUE), second, "", TRUE)

\* C39: vertical movement is reversible: with the head on a line that is not
\* the last, a plain Down followed by a plain Up returns the head to the
\* offset it started from, and Up followed by Down does so from any line
\* that is not the first.
C39_VerticalMovementReversible ==
    LET line == char_to_line(rope, head)
    IN  (Running /\ head <= Len(rope))
            => /\ line < len_lines(rope) - 1 => Then("Down", "Up").head = head
               /\ line > 0 => Then("Up", "Down").head = head

-----------------------------------------------------------------------------
(* Word motions (SpecMove) *)

\* C28: Ctrl+Left and Ctrl+Right each leave a collapsed cursor, and each
\* keeps the head inside the line it started on: Ctrl+Left never moves it
\* before the start of that line, Ctrl+Right never past its effective end.
C28_WordMotionStaysInLine ==
    [][ ( /\ ev'.op = "key" /\ ev'.key \in {"CtrlLeft", "CtrlRight"}
          /\ head <= Len(rope) /\ ~panic' )
        => LET line == char_to_line(rope, head)
               line_start == line_to_char(rope, line)
           IN  /\ anchor' = head'
               /\ head' >= line_start
               /\ head' <= line_start + LineEff(rope, line) ]_vars

-----------------------------------------------------------------------------
(* Cutting a block selection (SpecClip) *)

\* the character at offset pos (0-based) of rope r lies in a row of block
\* selection b, in one of the columns lo..hi
InColumns(r, b, pos, lo, hi) ==
    /\ LineOfPos(r, pos) \in BlockRows(b)
    /\ char_idx_to_visual_col(rope_line(r, LineOfPos(r, pos)), ColOfPos(r, pos)) \in lo..hi

\* C20: a cut of a block selection keeps the length of the document and its
\* line feeds, leaves every character outside the rectangle as it was and
\* puts a space for every other character inside it (the column of the
\* larger corner may count as inside or not).
C20_BlockCutBlanksRectangle ==
    [][ ( /\ ev'.op = "key" /\ ev'.key = "CtrlX"
          /\ block_selection.some
          /\ ~panic' /\ ret' = "true" )
        => /\ Len(rope') = Len(rope)
           /\ \A i \in 1..Len(rope) :
                LET b == block_selection
                    lo == BlockMinCol(b)
                    hi == BlockMaxCol(b)
                IN  /\ rope[i] = NL => rope'[i] = NL
                    /\ ~InColumns(rope, b, i - 1, lo, hi) => rope'[i] = rope[i]
                    /\ (InColumns(rope, b, i - 1, lo, hi - 1) /\ rope[i] # NL)
                          => rope'[i] = SP
                    /\ rope'[i] \in {rope[i], SP} ]_vars

-----------------------------------------------------------------------------
(* Saving after every change (SpecSave) *)

\* C40: while a note is selected, once an input event (a key or a mouse
\* press) has been processed, the content the store holds for the note is
\* the text of the editor: no change of the document is left unsaved.
C40_NoChangeLeftUnsaved ==
    (Running /\ selected_note.some) => selected_note.content = rope

-----------------------------------------------------------------------------
(* The modified flag (SpecClip) *)

\* C2: a key event that returns reports modified = true exactly when the
\* document text after it differs from the text before it; so movement,
\* selection and copy leave the text alone and every change reports true.
C2_ModifiedIffChanged ==
    [][ (ev'.op = "key" /\ ~panic' /\ ret' # "err")
        => ((ret' = "true") <=> (rope' # rope)) ]_vars

====
